------------------------------ MODULE MCPaging ------------------------------
(* A small address space: 2-byte pages, tables of 4 entries. RODATA is page *)
(* 19, DATA pages 35-36, STACK page 50; DATA crosses the boundary between    *)
(* two last-level tables, and all segments share the top-level entry, as the *)
(* addresses of the code do.                                                 *)
EXTENDS Paging, TLC

MCStart == [seg \in Segment |-> CASE seg = "RODATA" -> 38
                                  [] seg = "DATA" -> 70
                                  [] seg = "STACK" -> 100]
MCEnd == [seg \in Segment |-> CASE seg = "RODATA" -> 40
                                [] seg = "DATA" -> 74
                                [] seg = "STACK" -> 102]
MCAddress == {0, 38, 40, 70, 72, 73, 74, 100}

FrameSymmetry == Permutations(Frame)

\* An exit leaves the tables and the TLB as they were, so of the states after
\* it only what KilledForCause looks at need be told apart.
ExitView == IF exited THEN <<next_free, killed>>
            ELSE <<next_free, tree, frame, rw, free, tlb>>

=============================================================================
