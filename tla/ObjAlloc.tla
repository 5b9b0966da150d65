------------------------------ MODULE ObjAlloc ------------------------------
(***************************************************************************)
(* The allocators of the object store (Assn4/objstore.c, fetch_free_id and *)
(* free_inode_id; fetch_free_block and free_block are the same code over   *)
(* the other map) called by several FUSE threads. There is no lock: the    *)
(* map, one read or write of a byte at a time, and the hint are shared,    *)
(* and the end of the loop is computed from the hint at every turn.        *)
(*                                                                         *)
(* Bitmap has what one undisturbed call does.                              *)
(***************************************************************************)
EXTENDS Bitmap

CONSTANTS
  Thread,   \* threads of the FUSE process
  Bits      \* of the map, a multiple of ByteBits

VARIABLES
  map,         \* inodemap: the bits that are set
  hint,        \* inode_bit_itr
  pc,          \* of each thread: "idle", or the next access of its call
  at,          \* of each thread: 8 i + j, the place of its search
  id,          \* of each thread: free_id, or the identifier it frees
  byte,        \* of each thread: the byte of id, as it was read
  handed,      \* history: how often each identifier was handed out and not
               \* given back
  overlapped   \* history: two calls were in progress at the same time

vars == <<map, hint, pc, at, id, byte, handed, overlapped>>

Position(t) == at[t] % Bits
ByteIn(n) == {m \in map : ByteOf(m) = ByteOf(n)}

Goes(t, from, to) == pc[t] = from /\ pc' = [pc EXCEPT ![t] = to]

Called == overlapped' = (overlapped \/ \E u \in Thread : pc[u] # "idle")

-----------------------------------------------------------------------------
(* fetch_free_id                                                           *)

fetch_free_id(t) ==
  /\ Goes(t, "idle", "scan")
  /\ at' = [at EXCEPT ![t] = hint * ByteBits]
  /\ Called
  /\ UNCHANGED <<map, hint, id, byte, handed>>

\* i < MAX_OBJECT / 8 + inode_bit_itr fails: the hint may have moved meanwhile.
AtEnd(t) ==
  /\ at[t] % ByteBits = 0
  /\ ByteOf(at[t]) >= ByteOf(Bits) + hint

GiveUp(t) ==
  /\ Goes(t, "scan", "idle")
  /\ AtEnd(t)
  /\ UNCHANGED <<map, hint, at, id, byte, handed, overlapped>>

Skip(t) ==
  /\ pc[t] = "scan"
  /\ ~AtEnd(t)
  /\ Position(t) \in {0, 1} \cup map
  /\ at' = [at EXCEPT ![t] = @ + 1]
  /\ UNCHANGED <<map, hint, pc, id, byte, handed, overlapped>>

Find(t) ==
  /\ Goes(t, "scan", "load")
  /\ ~AtEnd(t)
  /\ Position(t) \notin {0, 1} \cup map
  /\ id' = [id EXCEPT ![t] = Position(t)]
  /\ UNCHANGED <<map, hint, at, byte, handed, overlapped>>

\* inodemap[index] |= 1 << j, a read and a write.
LoadByte(t) ==
  /\ Goes(t, "load", "store")
  /\ byte' = [byte EXCEPT ![t] = ByteIn(id[t])]
  /\ UNCHANGED <<map, hint, at, id, handed, overlapped>>

StoreByte(t) ==
  /\ Goes(t, "store", "hint")
  /\ map' = (map \ ByteIn(id[t])) \cup byte[t] \cup {id[t]}
  /\ UNCHANGED <<hint, at, id, byte, handed, overlapped>>

\* The search of the next call starts here; the identifier is returned.
Return(t) ==
  /\ Goes(t, "hint", "idle")
  /\ hint' = ByteOf(id[t])
  /\ handed' = [handed EXCEPT ![id[t]] = @ + 1]
  /\ UNCHANGED <<map, at, id, byte, overlapped>>

-----------------------------------------------------------------------------
(* free_inode_id, of an identifier in use                                  *)

free_inode_id(t) ==
  /\ Goes(t, "idle", "free")
  /\ \E n \in 0 .. Bits - 1 :
       /\ handed[n] > 0
       /\ handed' = [handed EXCEPT ![n] = @ - 1]
       /\ id' = [id EXCEPT ![t] = n]
  /\ Called
  /\ UNCHANGED <<map, hint, at, byte>>

LoadFreed(t) ==
  /\ Goes(t, "free", "clear")
  /\ byte' = [byte EXCEPT ![t] = ByteIn(id[t])]
  /\ UNCHANGED <<map, hint, at, id, handed, overlapped>>

StoreFreed(t) ==
  /\ Goes(t, "clear", "idle")
  /\ map' = (map \ ByteIn(id[t])) \cup (byte[t] \ {id[t]})
  /\ UNCHANGED <<hint, at, id, byte, handed, overlapped>>

-----------------------------------------------------------------------------

Init ==
  /\ map = {} /\ hint = 0
  /\ pc = [t \in Thread |-> "idle"]
  /\ at = [t \in Thread |-> 0]
  /\ id = [t \in Thread |-> 0]
  /\ byte = [t \in Thread |-> {}]
  /\ handed = [n \in 0 .. Bits - 1 |-> 0]
  /\ overlapped = FALSE

Next ==
  \E t \in Thread :
    \/ fetch_free_id(t) \/ GiveUp(t) \/ Skip(t) \/ Find(t)
    \/ LoadByte(t) \/ StoreByte(t) \/ Return(t)
    \/ free_inode_id(t) \/ LoadFreed(t) \/ StoreFreed(t)

Spec == Init /\ [][Next]_vars

-----------------------------------------------------------------------------
(* Properties.                                                             *)

\* Objects have unique identifiers: none is handed out while it is in use
\* (create_object takes the identifier for free).
IdsUnique == \A n \in 0 .. Bits - 1 : handed[n] <= 1

\* What a call that nobody disturbs does is what Bitmap says of it: it finds the
\* bit Fetch names, and gives up only if there is none.
FindsFetch ==
  \A t \in Thread :
    /\ pc[t] \in {"load", "store"} => id[t] = Fetch(map, Bits, hint)
    /\ pc[t] = "scan" /\ AtEnd(t) => Fetch(map, Bits, hint) = 0

=============================================================================
