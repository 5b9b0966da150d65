----------------------------- MODULE MCObjAlloc -----------------------------
(* Two threads and a map of two bytes, the first of them half reserved.        *)
EXTENDS ObjAlloc

=============================================================================
