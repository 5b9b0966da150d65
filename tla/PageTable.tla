------------------------------ MODULE PageTable ------------------------------
(***************************************************************************)
(* The 4-level radix tree that Assn1 builds for a new context and Assn2    *)
(* grows on page faults.  A tree is kept as what a walk can tell: for each *)
(* interior entry that some page goes through, whether it is absent,       *)
(* read-only or writable.  No table is freed while its context runs, so a  *)
(* present entry stands for the table it points to.                        *)
(***************************************************************************)
EXTENDS Integers

CONSTANTS
  Levels,   \* levels of the tree (4); level 0 holds the mapping itself
  Fanout    \* entries of a table (512)

ASSUME TreeAssumption == Levels \in Nat /\ Fanout \in Nat \ {0}

Flags == {"ro", "rw"}

\* The interior entries a walk of page p goes through, offsetL2 .. offsetL4.
Path(p) == {<<l, p \div (Fanout ^ l)>> : l \in 1 .. Levels - 1}
Top(p) == <<Levels - 1, p \div (Fanout ^ (Levels - 1))>>

Walked(tree, p) == \A e \in Path(p) : tree[e] # "absent"
WalkedWritable(tree, p) == \A e \in Path(p) : tree[e] = "rw"

\* Mutant: the flags of entries that are present are overwritten.
FillOver(tree, p, flags) ==
  [e \in DOMAIN tree |-> IF e \in Path(p) THEN flags ELSE tree[e]]

\* Entries that are present are kept; a table is allocated for each absent one
\* and entered with these flags.
Fill(tree, p, flags) ==
  [e \in DOMAIN tree |-> IF e \in Path(p) /\ tree[e] = "absent"
                           THEN flags ELSE tree[e]]

=============================================================================
