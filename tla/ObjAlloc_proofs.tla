--------------------------- MODULE ObjAlloc_proofs ---------------------------
(***************************************************************************)
(* Calls of the allocators that do not overlap hand out unique             *)
(* identifiers, for any number of threads and any map. The invariant says  *)
(* that what is in use is marked in the map, and what a call in progress   *)
(* knows is still true; it is only claimed of behaviours without overlap.  *)
(***************************************************************************)
EXTENDS ObjAlloc, Bitmap_proofs

Id == 0 .. Bits - 1

Shape ==
  /\ handed \in [Id -> Nat]
  /\ pc \in [Thread -> {"idle", "scan", "load", "store", "hint", "free", "clear"}]
  /\ id = [t \in Thread |-> id[t]]
  /\ byte = [t \in Thread |-> byte[t]]

\* One call at a time; what is in use is marked.
OneCaller == \A t, u \in Thread : pc[t] # "idle" /\ pc[u] # "idle" => t = u
Marked == \A n \in Id : handed[n] <= 1 /\ (handed[n] > 0 => n \in map)

\* The identifier of a call in progress is in use by nobody; the byte it read
\* is the byte in the map.
NotInUse ==
  \A t \in Thread, n \in Id :
    pc[t] \notin {"idle", "scan"} /\ id[t] = n => handed[n] = 0
ByteFresh ==
  \A t \in Thread : pc[t] \in {"store", "clear"} => byte[t] = ByteIn(id[t])
Stored == \A t \in Thread : pc[t] = "hint" => id[t] \in map

Serial == OneCaller /\ Marked /\ NotInUse /\ ByteFresh /\ Stored

IInv == Shape /\ (~overlapped => Serial)

\* Nothing is in use and no call is in progress at the start.
LEMMA InitSerial == Init => IInv
  BY DEF Init, IInv, Shape, Serial, OneCaller, Marked, NotInUse, ByteFresh, Stored, Id

\* The shape of the variables is kept by every step.
LEMMA NextShape == Shape /\ Next => Shape'
  <1> SUFFICES ASSUME Shape, Next PROVE Shape'
    OBVIOUS
  <1>1. PICK t \in Thread :
          \/ fetch_free_id(t) \/ GiveUp(t) \/ Skip(t) \/ Find(t)
          \/ LoadByte(t) \/ StoreByte(t) \/ Return(t)
          \/ free_inode_id(t) \/ LoadFreed(t) \/ StoreFreed(t)
    BY DEF Next
  <1>2. handed' \in [Id -> Nat]
    <2>1. CASE Return(t)
      <3>1. \A n \in Id : handed[n] \in Nat /\ handed[n] + 1 \in Nat
        BY DEF Shape
      <3>2. handed' = [n \in Id |-> IF n = id[t] THEN handed[n] + 1 ELSE handed[n]]
        BY <2>1 DEF Return, Shape
      <3> QED
        BY <3>1, <3>2
    <2>2. CASE free_inode_id(t)
      BY <2>2 DEF free_inode_id, Shape, Id
    <2>3. CASE ~Return(t) /\ ~free_inode_id(t)
      BY <1>1, <2>3 DEF fetch_free_id, GiveUp, Skip, Find, LoadByte, StoreByte,
           LoadFreed, StoreFreed, Shape
    <2> QED
      BY <2>1, <2>2, <2>3
  <1>3. pc' \in [Thread -> {"idle", "scan", "load", "store", "hint", "free", "clear"}]
    BY <1>1 DEF fetch_free_id, GiveUp, Skip, Find, LoadByte, StoreByte, Return,
         free_inode_id, LoadFreed, StoreFreed, Goes, Shape
  <1>4. id' = [u \in Thread |-> id'[u]]
    BY <1>1 DEF fetch_free_id, GiveUp, Skip, Find, LoadByte, StoreByte, Return,
         free_inode_id, LoadFreed, StoreFreed, Shape
  <1>5. byte' = [u \in Thread |-> byte'[u]]
    BY <1>1 DEF fetch_free_id, GiveUp, Skip, Find, LoadByte, StoreByte, Return,
         free_inode_id, LoadFreed, StoreFreed, Shape
  <1> QED
    BY <1>2, <1>3, <1>4, <1>5 DEF Shape

\* One step keeps Serial, unless calls overlap after it.
LEMMA NextSerial == Shape /\ Serial /\ ~overlapped' /\ Next => Serial'
  <1> SUFFICES ASSUME Shape, Serial, ~overlapped', Next PROVE Serial'
    OBVIOUS
  <1> DEFINE Mine(t) == \A u \in Thread : u # t => pc[u] = "idle"
  <1>1. PICK t \in Thread :
          \/ fetch_free_id(t) \/ GiveUp(t) \/ Skip(t) \/ Find(t)
          \/ LoadByte(t) \/ StoreByte(t) \/ Return(t)
          \/ free_inode_id(t) \/ LoadFreed(t) \/ StoreFreed(t)
    BY DEF Next
  <1>2. Mine(t)
    BY <1>1 DEF fetch_free_id, GiveUp, Skip, Find, LoadByte, StoreByte, Return,
         free_inode_id, LoadFreed, StoreFreed, Goes, Called, Serial, OneCaller
  <1>3. \A u \in Thread : u # t => pc'[u] = "idle"
    BY <1>1, <1>2 DEF fetch_free_id, GiveUp, Skip, Find, LoadByte, StoreByte, Return,
         free_inode_id, LoadFreed, StoreFreed, Goes, Shape
  <1>4. OneCaller'
    BY <1>3 DEF OneCaller
  <1>5. CASE fetch_free_id(t)
    BY <1>2, <1>3, <1>4, <1>5 DEF fetch_free_id, Goes, Shape, Serial, Marked, NotInUse,
         ByteFresh, Stored, ByteIn
  <1>6. CASE GiveUp(t)
    BY <1>2, <1>3, <1>4, <1>6 DEF GiveUp, Goes, Shape, Serial, Marked, NotInUse,
         ByteFresh, Stored, ByteIn
  <1>7. CASE Skip(t)
    BY <1>2, <1>3, <1>4, <1>7 DEF Skip, Shape, Serial, Marked, NotInUse,
         ByteFresh, Stored, ByteIn
  \* What is not marked is not in use.
  <1>8. CASE Find(t)
    <2>1. Position(t) \notin map /\ id'[t] = Position(t) /\ pc'[t] = "load"
      BY <1>8 DEF Find, Goes, Shape
    <2>2. Marked' /\ UNCHANGED <<map, handed>>
      BY <1>8 DEF Find, Serial, Marked
    <2>3. \A n \in Id : id'[t] = n => handed'[n] = 0
      BY <2>1, <2>2 DEF Serial, Marked, Shape
    <2> QED
      BY <1>3, <1>4, <2>1, <2>2, <2>3 DEF Serial, NotInUse, ByteFresh, Stored
  <1>9. CASE LoadByte(t) \/ LoadFreed(t)
    <2>1. UNCHANGED <<map, handed, id>> /\ byte'[t] = ByteIn(id[t])
      BY <1>9 DEF LoadByte, LoadFreed, Shape
    <2>2. pc'[t] \in {"store", "clear"} /\ pc[t] \in {"load", "free"}
      BY <1>9 DEF LoadByte, LoadFreed, Goes, Shape
    <2>3. ByteIn(id[t])' = ByteIn(id[t])
      BY <2>1 DEF ByteIn
    <2> QED
      BY <1>3, <1>4, <2>1, <2>2, <2>3 DEF Serial, Marked, NotInUse, ByteFresh, Stored
  \* The byte is the map's, so only the bit of id changes.
  <1>10. CASE StoreByte(t)
    <2>1. pc[t] = "store" /\ pc'[t] = "hint" /\ UNCHANGED <<handed, id>>
      BY <1>10 DEF StoreByte, Goes, Shape
    <2>2. byte[t] = ByteIn(id[t])
      BY <2>1 DEF Serial, ByteFresh
    <2>3. map' = map \cup {id[t]}
      BY <1>10, <2>2 DEF StoreByte, ByteIn
    <2> QED
      BY <1>3, <1>4, <2>1, <2>3 DEF Serial, Marked, NotInUse, ByteFresh, Stored
  <1>11. CASE Return(t)
    <2>1. pc[t] = "hint" /\ pc'[t] = "idle" /\ UNCHANGED <<map, id>>
      BY <1>11 DEF Return, Goes, Shape
    <2>2. \A n \in Id : handed[n] \in Nat
                        /\ handed'[n] = IF n = id[t] THEN handed[n] + 1 ELSE handed[n]
      BY <1>11 DEF Return, Shape
    <2>3. id[t] \in map /\ \A n \in Id : id[t] = n => handed[n] = 0
      BY <2>1 DEF Serial, Stored, NotInUse
    <2>4. Marked'
      BY <2>1, <2>2, <2>3 DEF Serial, Marked
    <2> QED
      BY <1>3, <1>4, <2>1, <2>4 DEF Serial, NotInUse, ByteFresh, Stored
  <1>12. CASE free_inode_id(t)
    <2>1. PICK n \in Id : /\ handed[n] > 0
                          /\ handed' = [handed EXCEPT ![n] = @ - 1]
                          /\ id' = [id EXCEPT ![t] = n]
      BY <1>12 DEF free_inode_id, Id
    <2>2. pc'[t] = "free" /\ id'[t] = n /\ UNCHANGED map
      BY <1>12, <2>1 DEF free_inode_id, Goes, Shape
    <2>3. \A m \in Id : /\ handed[m] \in Nat /\ handed[m] <= 1
                        /\ handed'[m] = IF m = n THEN handed[m] - 1 ELSE handed[m]
      BY <2>1 DEF Shape, Serial, Marked
    <2>4. handed'[n] = 0
      BY <2>1, <2>3
    <2>5. Marked'
      BY <2>2, <2>3 DEF Serial, Marked
    <2> QED
      BY <1>3, <1>4, <2>2, <2>4, <2>5 DEF Serial, NotInUse, ByteFresh, Stored
  \* The bit that goes is that of an identifier nobody uses.
  <1>13. CASE StoreFreed(t)
    <2>1. pc[t] = "clear" /\ pc'[t] = "idle" /\ UNCHANGED <<handed, id>>
      BY <1>13 DEF StoreFreed, Goes, Shape
    <2>2. byte[t] = ByteIn(id[t]) /\ \A n \in Id : id[t] = n => handed[n] = 0
      BY <2>1 DEF Serial, ByteFresh, NotInUse
    <2>3. map' = map \ {id[t]}
      BY <1>13, <2>2 DEF StoreFreed, ByteIn
    <2>4. Marked'
      BY <2>1, <2>2, <2>3 DEF Serial, Marked
    <2> QED
      BY <1>3, <1>4, <2>1, <2>4 DEF Serial, NotInUse, ByteFresh, Stored
  <1> QED
    BY <1>1, <1>5, <1>6, <1>7, <1>8, <1>9, <1>10, <1>11, <1>12, <1>13

\* A step never takes overlap back, and a stuttering step changes nothing.
LEMMA NextIInv == IInv /\ [Next]_vars => IInv'
  <1> SUFFICES ASSUME IInv, [Next]_vars PROVE IInv'
    OBVIOUS
  <1>1. CASE Next
    <2>1. overlapped => overlapped'
      BY <1>1 DEF Next, fetch_free_id, GiveUp, Skip, Find, LoadByte, StoreByte, Return,
           free_inode_id, LoadFreed, StoreFreed, Called
    <2> QED
      BY <1>1, <2>1, NextShape, NextSerial DEF IInv
  <1>2. CASE UNCHANGED vars
    BY <1>2 DEF vars, IInv, Shape, Serial, OneCaller, Marked, NotInUse, ByteFresh, Stored,
         ByteIn
  <1> QED
    BY <1>1, <1>2

\* As long as no two calls were in progress at once, no identifier is handed out
\* twice: the allocators are right when they are called one at a time, and it is
\* the missing lock that breaks them.
THEOREM SerialCallsUnique == Spec => [](~overlapped => IdsUnique)
  <1>1. IInv => (~overlapped => IdsUnique)
    BY DEF IInv, Serial, Marked, IdsUnique, Id
  <1> QED
    BY <1>1, InitSerial, NextIInv, PTL DEF Spec

-----------------------------------------------------------------------------
(* An undisturbed call is the operator Fetch. The search of such a call has  *)
(* met only bits that are taken.                                             *)

Bounds ==
  /\ at \in [Thread -> Nat]
  /\ hint \in Nat /\ hint * ByteBits \in 0 .. Bits - 1
  /\ \A t \in Thread : pc[t] \in {"load", "store", "hint"} => id[t] \in Id

Searched ==
  \A t \in Thread : pc[t] = "scan" =>
    /\ at[t] >= hint * ByteBits
    /\ \A a \in hint * ByteBits .. at[t] - 1 : a % Bits \in {0, 1} \cup map
Found ==
  \A t \in Thread : pc[t] \in {"load", "store"} => id[t] = Fetch(map, Bits, hint)

FInv == IInv /\ Bounds /\ (~overlapped => Searched /\ Found)

\* The first search has met nothing yet.
LEMMA InitFInv == ASSUME Bits \in Nat \ {0}, Init PROVE FInv
  <1>1. Bounds /\ Searched /\ Found
    BY BitmapAssumption DEF Init, Bounds, Searched, Found
  <1> QED
    BY <1>1, InitSerial DEF FInv

\* The hint is the byte of an identifier, so it stays inside the map.
LEMMA NextBounds ==
  ASSUME Bits \in Nat \ {0}, Shape, Bounds, Next
  PROVE  Bounds'
  <1>1. PICK t \in Thread :
          \/ fetch_free_id(t) \/ GiveUp(t) \/ Skip(t) \/ Find(t)
          \/ LoadByte(t) \/ StoreByte(t) \/ Return(t)
          \/ free_inode_id(t) \/ LoadFreed(t) \/ StoreFreed(t)
    BY DEF Next
  <1>2. hint * ByteBits \in Nat
    BY DEF Bounds
  <1>3. (at \in [Thread -> Nat])'
    BY <1>1, <1>2 DEF fetch_free_id, GiveUp, Skip, Find, LoadByte, StoreByte, Return,
         free_inode_id, LoadFreed, StoreFreed, Bounds
  <1>4. (hint \in Nat /\ hint * ByteBits \in 0 .. Bits - 1)'
    <2>1. CASE Return(t)
      <3>1. id[t] \in 0 .. Bits - 1 /\ hint' = ByteOf(id[t])
        BY <2>1 DEF Return, Goes, Bounds, Id
      <3>2. ByteOf(id[t]) \in Nat /\ ByteOf(id[t]) * ByteBits <= id[t]
        BY <3>1, ByteStart
      <3>3. ByteOf(id[t]) * ByteBits \in Nat
        BY <3>2, BitmapAssumption
      <3> QED
        BY <3>1, <3>2, <3>3
    <2>2. CASE ~Return(t)
      BY <1>1, <2>2 DEF fetch_free_id, GiveUp, Skip, Find, LoadByte, StoreByte,
           free_inode_id, LoadFreed, StoreFreed, Bounds
    <2> QED
      BY <2>1, <2>2
  <1>5. (\A u \in Thread : pc[u] \in {"load", "store", "hint"} => id[u] \in Id)'
    <2>1. Position(t) \in Id
      BY ModRange DEF Position, Bounds, Id
    <2>2. \A u \in Thread : pc[u] \in {"load", "store", "hint"} => id[u] \in Id
      BY DEF Bounds
    <2>3. CASE Find(t)
      BY <2>1, <2>2, <2>3 DEF Find, Goes, Shape
    <2>4. CASE ~Find(t)
      BY <1>1, <2>2, <2>4 DEF fetch_free_id, GiveUp, Skip, LoadByte, StoreByte, Return,
           free_inode_id, LoadFreed, StoreFreed, Goes, Shape
    <2> QED
      BY <2>3, <2>4
  <1> QED
    BY <1>3, <1>4, <1>5 DEF Bounds

\* Only the caller moves: its search grows by bits that are taken, or ends.
LEMMA NextFound ==
  ASSUME Bits \in Nat \ {0}, Shape, Serial, Bounds, Searched, Found, Next,
         ~overlapped', Serial'
  PROVE  Searched' /\ Found'
  <1>1. PICK t \in Thread :
          \/ fetch_free_id(t) \/ GiveUp(t) \/ Skip(t) \/ Find(t)
          \/ LoadByte(t) \/ StoreByte(t) \/ Return(t)
          \/ free_inode_id(t) \/ LoadFreed(t) \/ StoreFreed(t)
    BY DEF Next
  <1>2. \A u \in Thread : u # t => pc'[u] = "idle"
    <2>1. \A u \in Thread : u # t => pc[u] = "idle"
      BY <1>1 DEF fetch_free_id, GiveUp, Skip, Find, LoadByte, StoreByte, Return,
           free_inode_id, LoadFreed, StoreFreed, Goes, Called, Serial, OneCaller
    <2> QED
      BY <1>1, <2>1 DEF fetch_free_id, GiveUp, Skip, Find, LoadByte, StoreByte, Return,
           free_inode_id, LoadFreed, StoreFreed, Goes, Shape
  <1>3. CASE fetch_free_id(t)
    <2>1. pc'[t] = "scan" /\ at'[t] = hint * ByteBits /\ UNCHANGED <<map, hint>>
      BY <1>3 DEF fetch_free_id, Goes, Shape, Bounds
    <2>2. hint * ByteBits .. hint * ByteBits - 1 = {} /\ hint * ByteBits \in Nat
      BY DEF Bounds
    <2> QED
      BY <1>2, <2>1, <2>2 DEF Searched, Found
  <1>4. CASE Skip(t)
    <2>1. pc[t] = "scan" /\ pc' = pc /\ at'[t] = at[t] + 1 /\ UNCHANGED <<map, hint>>
      BY <1>4 DEF Skip, Bounds
    <2>2. at[t] % Bits \in {0, 1} \cup map
      BY <1>4 DEF Skip, Position
    <2>3. hint * ByteBits \in Nat /\ at[t] \in Nat /\ at[t] >= hint * ByteBits
      BY <2>1 DEF Bounds, Searched
    <2> DEFINE s == hint * ByteBits
    <2>4. \A a \in s .. at[t] - 1 : a % Bits \in {0, 1} \cup map
      BY <2>1 DEF Searched
    <2> HIDE DEF s
    <2>5. \A a \in s .. (at[t] + 1) - 1 : a % Bits \in {0, 1} \cup map
      <3>1. \A a \in s .. (at[t] + 1) - 1 : a \in s .. at[t] - 1 \/ a = at[t]
        BY <2>3 DEF s
      <3> QED
        BY <2>2, <2>4, <3>1
    <2>6. Searched'
      BY <1>2, <2>1, <2>3, <2>5 DEF Searched, s
    <2> QED
      BY <1>2, <2>1, <2>6 DEF Found
  <1>5. CASE Find(t)
    <2>1. /\ pc[t] = "scan" /\ pc'[t] = "load" /\ id'[t] = at[t] % Bits
          /\ UNCHANGED <<map, hint>> /\ at[t] % Bits \notin {0, 1} \cup map
      BY <1>5 DEF Find, Goes, Shape, Position
    <2>2. at[t] % Bits = Fetch(map, Bits, hint)
      <3>1. /\ at[t] \in Nat /\ hint \in Nat /\ hint * ByteBits \in 0 .. Bits - 1
            /\ at[t] >= hint * ByteBits
            /\ \A a \in hint * ByteBits .. at[t] - 1 : a % Bits \in {0, 1} \cup map
        BY <2>1 DEF Bounds, Searched
      <3> QED
        BY <2>1, <3>1, FirstClear
    <2> QED
      BY <1>2, <2>1, <2>2 DEF Searched, Found
  <1>6. CASE LoadByte(t)
    BY <1>2, <1>6 DEF LoadByte, Goes, Shape, Searched, Found
  <1>7. CASE \/ GiveUp(t) \/ StoreByte(t) \/ Return(t)
             \/ free_inode_id(t) \/ LoadFreed(t) \/ StoreFreed(t)
    <2>1. pc'[t] \notin {"scan", "load", "store"}
      BY <1>7 DEF GiveUp, StoreByte, Return, free_inode_id, LoadFreed, StoreFreed, Goes, Shape
    <2> QED
      BY <1>2, <2>1 DEF Searched, Found
  <1> QED
    BY <1>1, <1>3, <1>4, <1>5, <1>6, <1>7

\* Every step keeps what a search has met, as long as no calls overlap.
LEMMA NextFInv == ASSUME Bits \in Nat \ {0}, FInv, [Next]_vars PROVE FInv'
  <1>1. CASE Next
    <2>1. IInv' /\ Bounds'
      BY <1>1, NextIInv, NextBounds DEF FInv, IInv
    <2>2. ASSUME ~overlapped' PROVE Searched' /\ Found'
      <3>1. ~overlapped
        BY <1>1, <2>2 DEF Next, fetch_free_id, GiveUp, Skip, Find, LoadByte, StoreByte,
             Return, free_inode_id, LoadFreed, StoreFreed, Called
      <3> QED
        BY <1>1, <2>1, <2>2, <3>1, NextFound DEF FInv, IInv
    <2> QED
      BY <2>1, <2>2 DEF FInv
  <1>2. CASE UNCHANGED vars
    <2>1. IInv'
      BY <1>2, NextIInv DEF FInv
    <2>2. Bounds' /\ (~overlapped' => Searched' /\ Found')
      BY <1>2 DEF vars, FInv, Bounds, Searched, Found
    <2> QED
      BY <2>1, <2>2 DEF FInv
  <1> QED
    BY <1>1, <1>2

\* A search that ends went all the way round.
LEMMA FInvFinds ==
  ASSUME Bits \in Nat \ {0}, Bits % ByteBits = 0, FInv, ~overlapped
  PROVE  FindsFetch
  <1>1. ASSUME NEW t \in Thread, pc[t] = "scan", AtEnd(t)
        PROVE  Fetch(map, Bits, hint) = 0
    <2>1. at[t] \in Nat /\ hint \in Nat /\ hint * ByteBits \in 0 .. Bits - 1
      BY DEF FInv, Bounds
    <2>2. at[t] = ByteOf(at[t]) * ByteBits /\ ByteOf(at[t]) \in Nat
      BY <1>1, <2>1, WholeBytes, ByteStart DEF AtEnd
    <2>3. Bits = ByteOf(Bits) * ByteBits /\ ByteOf(Bits) \in Nat
      BY WholeBytes, ByteStart
    <2>4. ByteOf(at[t]) >= ByteOf(Bits) + hint
      BY <1>1 DEF AtEnd
    <2>5. ByteOf(at[t]) * ByteBits >= (ByteOf(Bits) + hint) * ByteBits
      <3>1. \A x, y, b \in Nat : x >= y => x * b >= y * b
        OBVIOUS
      <3> QED
        BY <2>1, <2>2, <2>3, <2>4, <3>1, BitmapAssumption
    <2>6. (ByteOf(Bits) + hint) * ByteBits = ByteOf(Bits) * ByteBits + hint * ByteBits
      BY <2>1, <2>3, BitmapAssumption
    <2>7. at[t] >= hint * ByteBits + Bits
      BY <2>1, <2>2, <2>3, <2>5, <2>6
    <2>8. \A a \in hint * ByteBits .. at[t] - 1 : a % Bits \in {0, 1} \cup map
      BY <1>1 DEF FInv, Searched
    <2> QED
      BY <2>1, <2>7, <2>8, NoneClear
  <1> QED
    BY <1>1 DEF FInv, Found, FindsFetch

\* As long as no two calls were in progress at once, every call finds what Fetch
\* says, or gives up when there is nothing to find, whatever the map, the hint and
\* the number of bits: the models that call Fetch as one step lose nothing.
THEOREM SerialCallsFetch ==
  ASSUME Bits \in Nat \ {0}, Bits % ByteBits = 0
  PROVE  Spec => [](~overlapped => FindsFetch)
  <1>1. Init => FInv
    BY InitFInv
  <1>2. FInv /\ [Next]_vars => FInv'
    BY NextFInv
  <1>3. FInv => (~overlapped => FindsFetch)
    BY FInvFinds
  <1> QED
    BY <1>1, <1>2, <1>3, PTL DEF Spec
=============================================================================
