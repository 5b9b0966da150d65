----------------------------- MODULE MCContextMM -----------------------------
(* Tables of 4 entries: the pages 0 .. 63 share one top-level entry, and the *)
(* three segments lie in different quarters of it.                           *)
EXTENDS ContextMM

MCLayouts == {[s \in Seg |-> CASE s = "CODE" -> c [] s = "DATA" -> d [] OTHER -> k] :
                c \in 16 .. 18, d \in {32, 33, 36, 40}, k \in {51, 52, 55, 56, 63}}

=============================================================================
