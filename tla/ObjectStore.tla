----------------------------- MODULE ObjectStore -----------------------------
(***************************************************************************)
(* What a client of the object store is promised: one object per key;      *)
(* reads that give what was last written, with the size it was written     *)
(* with; replies that tell the truth. Clients read and write the first     *)
(* page of their objects; the variable request shows the last request and  *)
(* its reply.                                                              *)
(***************************************************************************)
EXTENDS Naturals, Sequences, FiniteSets

CONSTANTS
  Key,
  Value,       \* what clients write
  Length,      \* and the length of each
  MaxObjects,
  Nothing      \* no request, or the page of an object never written

VARIABLES
  object,      \* object[k]: absent, empty, or written, with its page and size
  reliable,    \* nothing has happened that voids the promise
  request

osvars == <<object, reliable, request>>

Absent == [state |-> "absent", page |-> Nothing, size |-> 0]
Empty == [state |-> "empty", page |-> Nothing, size |-> 0]
Written(v) == [state |-> "written", page |-> v, size |-> Length[v]]

Exists(k) == object[k] # Absent
IsFull == Cardinality({k \in Key : Exists(k)}) = MaxObjects

Answers(op, k, n, bytes, result) ==
  request' = [op |-> op, key |-> k, page |-> 0, value |-> n, bytes |-> bytes,
              result |-> result]

OSInit ==
  /\ object = [k \in Key |-> Absent]
  /\ reliable = TRUE
  /\ request = Nothing

OSCreate(k) ==
  \/ /\ Answers("create", k, 0, << >>, "ok")
     /\ ~Exists(k) /\ ~IsFull
     /\ object' = [object EXCEPT ![k] = Empty]
  \/ /\ Answers("create", k, 0, << >>, "EEXIST")
     /\ Exists(k) \/ IsFull
     /\ UNCHANGED object

OSOpen(k) ==
  /\ \/ Answers("open", k, 0, << >>, "ok") /\ Exists(k)
     \/ Answers("open", k, 0, << >>, "ENOENT") /\ ~Exists(k)
  /\ UNCHANGED object

\* The reply is the object's size.
OSGetattr(k) ==
  /\ \/ Answers("getattr", k, object[k].size, << >>, "ok") /\ Exists(k)
     \/ Answers("getattr", k, 0, << >>, "ENOENT") /\ ~Exists(k)
  /\ UNCHANGED object

\* What was written comes first; what follows the end of an object is not said.
OSRead(k) ==
  /\ Answers("read", k, 0, request'.bytes, "ok")
  /\ object[k].state = "written"
  /\ Len(request'.bytes) > 0 /\ request'.bytes[1] = object[k].page
  /\ UNCHANGED object

\* A write replaces the contents and the size. The first may find no room.
OSWrite(k, v) ==
  /\ Exists(k)
  /\ \/ Answers("write", k, v, << >>, "ok") /\ object' = [object EXCEPT ![k] = Written(v)]
     \/ Answers("write", k, v, << >>, "EINVAL") /\ object[k] = Empty /\ UNCHANGED object

\* The object gets a key that has none; the request does not show which.
OSRename(k) ==
  \/ /\ Answers("rename", k, 0, << >>, "ok")
     /\ Exists(k)
     /\ \E l \in Key : /\ ~Exists(l)
                       /\ object' = [object EXCEPT ![k] = Absent, ![l] = object[k]]
  \/ /\ Answers("rename", k, 0, << >>, "EINVAL")
     /\ Exists(k) => \E l \in Key \ {k} : Exists(l)
     /\ UNCHANGED object

OSUnlink(k) ==
  /\ Answers("unlink", k, 0, << >>, "ok")
  /\ object' = [object EXCEPT ![k] = Absent]

\* Something happened that the promise does not cover.
OSVoid ==
  /\ reliable' = FALSE
  /\ object' = [k \in Key |-> Absent]
  /\ request' = Nothing

OSRequest ==
  \E k \in Key :
    \/ OSCreate(k) \/ OSOpen(k) \/ OSGetattr(k) \/ OSRead(k) \/ OSRename(k)
    \/ OSUnlink(k)
    \/ \E v \in Value : OSWrite(k, v)

OSNext ==
  \/ reliable /\ request' # Nothing /\ OSRequest /\ UNCHANGED reliable
  \/ OSVoid

OSSpec == OSInit /\ [][OSNext]_osvars

=============================================================================
