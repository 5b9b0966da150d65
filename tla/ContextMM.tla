------------------------------ MODULE ContextMM ------------------------------
(***************************************************************************)
(* The address space of a launched context, Assn1/context_mm.c:            *)
(* prepare_context_mm builds its page table, cleanup_context_mm frees it.  *)
(*                                                                         *)
(* A page table page is named by the entry that points to it, the root by  *)
(* Root; the data frames are named by their segments.  What is counted is *)
(* how often each has been handed to os_pfn_free.                          *)
(***************************************************************************)
EXTENDS PageTable, FiniteSets

CONSTANT Layouts  \* the pages of stack, code and data of the contexts launched

Seg == {"STACK", "CODE", "DATA"}

\* The segments are far apart: they share the top-level entry and no other
\* (CODE_START, DATA_START and STACK_START of context.h).
ASSUME LayoutAssumption ==
  \A at \in Layouts : /\ at \in [Seg -> Nat]
                      /\ \A s, t \in Seg :
                           s # t => Path(at[s]) \cap Path(at[t]) = {Top(at[s])}

Entry == UNION {UNION {Path(at[s]) : s \in Seg} : at \in Layouts}
Root == <<Levels, 0>>
Table == Entry \cup {Root}

VARIABLES
  phase,       \* "idle", "running" (between launch and exit)
  at,          \* the page of each segment: stack end - 1, code and data start
  tree,        \* interior entries
  leaf,        \* last-level entries, by segment
  freedTable,  \* times each page table page was freed since the launch
  freedFrame   \* times each data frame was freed since the launch

ctxVars == <<phase, at, tree, leaf, freedTable, freedFrame>>

Empty == [e \in Entry |-> "absent"]

-----------------------------------------------------------------------------

\* Mutant: code is entered first, so the shared entry is read-only.
prepare_code_first(layout) ==
  /\ phase = "idle"
  /\ phase' = "running"
  /\ at' = layout
  /\ tree' = LET code == Fill(Empty, layout["CODE"], "ro")
                 stack == Fill(code, layout["STACK"], "rw")
             IN  Fill(stack, layout["DATA"], "rw")
  /\ leaf' = [s \in Seg |-> IF s = "CODE" THEN "ro" ELSE "rw"]
  /\ freedTable' = [t \in Table |-> 0]
  /\ freedFrame' = [s \in Seg |-> 0]

\* The root is new; stack, code and data are entered in this order.
prepare_context_mm(layout) ==
  /\ phase = "idle"
  /\ phase' = "running"
  /\ at' = layout
  /\ tree' = LET stack == Fill(Empty, layout["STACK"], "rw")
                 code == Fill(stack, layout["CODE"], "ro")
             IN  Fill(code, layout["DATA"], "rw")
  /\ leaf' = [s \in Seg |-> IF s = "CODE" THEN "ro" ELSE "rw"]
  /\ freedTable' = [t \in Table |-> 0]
  /\ freedFrame' = [s \in Seg |-> 0]

\* Mutant: the second-level tables are forgotten.
FreedForButL2(s) == {e \in Path(at[s]) : tree[e] # "absent" /\ e[1] # 2}
                      \ (IF s = "CODE" THEN {Top(at[s])} ELSE {})

\* The tables the part of cleanup for segment s frees: the code part leaves
\* the table that the top-level entry points to.
FreedFor(s) == {e \in Path(at[s]) : tree[e] # "absent"}
                 \ (IF s = "CODE" THEN {Top(at[s])} ELSE {})

\* Mutant: nothing keeps a context from being cleaned up again.
cleanup_again ==
  /\ freedTable' = [t \in Table |->
                      freedTable[t] + Cardinality({s \in Seg : t \in FreedFor(s)})]
  /\ freedFrame' = [s \in Seg |-> freedFrame[s] + (IF leaf[s] # "absent" THEN 1 ELSE 0)]
  /\ UNCHANGED <<phase, at, tree, leaf>>

cleanup_context_mm ==
  /\ phase = "running"
  /\ phase' = "idle"
  /\ freedTable' = [t \in Table |->
                      freedTable[t] + Cardinality({s \in Seg : t \in FreedFor(s)})]
  /\ freedFrame' = [s \in Seg |-> freedFrame[s] + (IF leaf[s] # "absent" THEN 1 ELSE 0)]
  /\ UNCHANGED <<at, tree, leaf>>

CtxInit ==
  /\ phase = "idle"
  /\ at \in Layouts
  /\ tree = Empty
  /\ leaf = [s \in Seg |-> "absent"]
  /\ freedTable = [t \in Table |-> 0]
  /\ freedFrame = [s \in Seg |-> 0]

CtxNext == cleanup_context_mm \/ \E layout \in Layouts : prepare_context_mm(layout)

CtxSpec == CtxInit /\ [][CtxNext]_ctxVars

-----------------------------------------------------------------------------
(* What prepare and cleanup promise.                                       *)

\* Every variable has its type.
CtxTypeOK ==
  /\ phase \in {"idle", "running"}
  /\ at \in Layouts
  /\ tree \in [Entry -> Flags \cup {"absent"}]
  /\ leaf \in [Seg -> Flags \cup {"absent"}]
  /\ freedTable \in [Table -> 0 .. 3]
  /\ freedFrame \in [Seg -> 0 .. 1]

\* A running context can read every page it was given and write exactly those
\* of stack and data: the entry at the top, which the segments share, has the
\* flags of whoever was mapped first.
RightsAsAsked ==
  phase = "running" =>
    \A s \in Seg : /\ Walked(tree, at[s])
                   /\ (leaf[s] = "rw" /\ WalkedWritable(tree, at[s])) <=> s # "CODE"

\* After cleanup every data frame, and every table below the shared one, has
\* been freed exactly once.
PrivateFreedOnce ==
  phase = "idle" /\ leaf["STACK"] # "absent" =>
    \A s \in Seg : /\ freedFrame[s] = 1
                   /\ \A e \in Path(at[s]) \ {Top(at[s])} : freedTable[e] = 1

=============================================================================
