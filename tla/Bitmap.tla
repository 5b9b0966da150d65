------------------------------- MODULE Bitmap -------------------------------
(***************************************************************************)
(* The bitmap allocators of the object store (Assn4/objstore.c): a map is  *)
(* the set of the bits that are set, and the search starts at the byte of  *)
(* the last success. Identifiers 0 and 1 are reserved.                     *)
(***************************************************************************)
EXTENDS Naturals

CONSTANT ByteBits   \* bits of a byte of the map (8)

ASSUME BitmapAssumption == ByteBits \in Nat \ {0}

ByteOf(n) == n \div ByteBits

\* When a search of a map of so many bits that starts at byte hint meets bit n.
\* The sum is never negative: hint is a byte of the map.
ScanPosition(n, bits, hint) == (n + bits - hint * ByteBits) % bits

\* Mutant: identifier 1 is not reserved.
ClearFromOne(set, bits) == (1 .. bits - 1) \ set
Clear(set, bits) == (2 .. bits - 1) \ set

\* The identifier handed out, 0 if there is none.
Fetch(set, bits, hint) ==
  IF Clear(set, bits) = {} THEN 0
  ELSE CHOOSE n \in Clear(set, bits) :
         \A m \in Clear(set, bits) :
           ScanPosition(n, bits, hint) <= ScanPosition(m, bits, hint)

\* The map and the search's starting byte after n was handed out.
Taken(set, n) == IF n = 0 THEN set ELSE set \cup {n}
Hint(hint, n) == IF n = 0 THEN hint ELSE ByteOf(n)

=============================================================================
