---------------------------- MODULE Bitmap_proofs ----------------------------
(***************************************************************************)
(* Facts about the search of a bitmap: it meets every bit once, in the     *)
(* order of ScanPosition, so that the first clear bit it meets is what     *)
(* Fetch names, and a search that went all the way round met every bit.    *)
(***************************************************************************)
EXTENDS Bitmap, Integers, TLAPS

\* Remainders of what is less than one, or two, times the divisor.
LEMMA ModSmall == ASSUME NEW B \in Nat \ {0}, NEW x \in 0 .. B - 1 PROVE x % B = x
  OBVIOUS

\* ... a divisor more is taken off.
LEMMA ModPlus == ASSUME NEW B \in Nat \ {0}, NEW x \in 0 .. B - 1 PROVE (x + B) % B = x
  OBVIOUS

\* Every remainder is less than the divisor.
LEMMA ModRange == ASSUME NEW B \in Nat \ {0}, NEW x \in Nat PROVE x % B \in 0 .. B - 1
  OBVIOUS

\* The search meets the bits from its start in the order of their numbers.
LEMMA Unscan ==
  ASSUME NEW B \in Nat \ {0}, NEW h \in Nat, h * ByteBits \in 0 .. B - 1, NEW n \in 0 .. B - 1
  PROVE  /\ ScanPosition(n, B, h) \in 0 .. B - 1
         /\ (h * ByteBits + ScanPosition(n, B, h)) % B = n
  <1> DEFINE s == h * ByteBits
  <1>1. s \in 0 .. B - 1
    OBVIOUS
  <1>2. ScanPosition(n, B, h) = (n + B - s) % B
    BY DEF ScanPosition
  <1> HIDE DEF s
  <1>3. CASE n >= s
    <2>1. (n - s + B) % B = n - s
      BY <1>1, <1>3, ModPlus
    <2>2. n - s + B = n + B - s
      BY <1>1
    <2>3. s + (n - s) = n /\ n - s \in 0 .. B - 1
      BY <1>1, <1>3
    <2> QED
      BY <1>2, <2>1, <2>2, <2>3, ModSmall DEF s
  <1>4. CASE n < s
    <2>1. n + B - s \in 0 .. B - 1
      BY <1>1, <1>4
    <2>2. (n + B - s) % B = n + B - s
      BY <2>1, ModSmall
    <2>3. s + (n + B - s) = n + B
      BY <1>1
    <2> QED
      BY <1>2, <2>1, <2>2, <2>3, ModPlus DEF s
  <1> QED
    BY <1>1, <1>3, <1>4

\* A search that met only taken bits before a clear one has found what Fetch says.
LEMMA FirstClear ==
  ASSUME NEW B \in Nat \ {0}, NEW h \in Nat, h * ByteBits \in 0 .. B - 1,
         NEW taken, NEW p \in Nat, p >= h * ByteBits,
         \A a \in h * ByteBits .. p - 1 : a % B \in {0, 1} \cup taken,
         p % B \notin {0, 1} \cup taken
  PROVE  p % B = Fetch(taken, B, h)
  <1> DEFINE s == h * ByteBits
             n == p % B
             S(m) == ScanPosition(m, B, h)
  <1>1. s \in 0 .. B - 1 /\ n \in 0 .. B - 1 /\ p >= s
    OBVIOUS
  <1>2. n \in Clear(taken, B)
    BY <1>1 DEF Clear
  <1>3. \A m \in 0 .. B - 1 : S(m) \in 0 .. B - 1 /\ (s + S(m)) % B = m
    BY Unscan
  <1>4. \A m \in Clear(taken, B) : m \in 0 .. B - 1 /\ m \notin {0, 1} \cup taken
    BY DEF Clear
  <1>5. \A a \in s .. p - 1 : a % B \in {0, 1} \cup taken
    OBVIOUS
  <1> HIDE DEF s, n, S
  <1>6. \A m \in Clear(taken, B) : s + S(m) >= p
    BY <1>1, <1>3, <1>4, <1>5
  <1>7. p - s \in 0 .. B - 1
    BY <1>1, <1>2, <1>3, <1>4, <1>6
  <1>8. S(n) = p - s
    <2>1. CASE p < B
      <3>1. n = p
        BY <1>1, <2>1, ModSmall DEF n
      <3>2. S(n) = (p - s + B) % B
        BY <3>1, <1>1 DEF S, ScanPosition, s
      <3> QED
        BY <3>2, <1>7, ModPlus
    <2>2. CASE p >= B
      <3>1. p - B \in 0 .. B - 1
        BY <1>1, <1>7, <2>2
      <3>2. n = p - B
        BY <3>1, ModPlus, (p - B) + B = p DEF n
      <3>3. S(n) = (p - s) % B
        BY <3>2, <1>1, (p - B) + B - s = p - s DEF S, ScanPosition, s
      <3> QED
        BY <3>3, <1>7, ModSmall
    <2> QED
      BY <1>1, <2>1, <2>2
  <1>9. \A m \in Clear(taken, B) : S(n) <= S(m)
    BY <1>1, <1>3, <1>4, <1>6, <1>8
  <1>10. \A m \in Clear(taken, B) :
           (\A k \in Clear(taken, B) : S(m) <= S(k)) => m = n
    BY <1>2, <1>3, <1>4, <1>9
  <1>11. Fetch(taken, B, h) = CHOOSE m \in Clear(taken, B) :
           \A k \in Clear(taken, B) : S(m) <= S(k)
    BY <1>2 DEF Fetch, S
  <1> QED
    BY <1>2, <1>9, <1>10, <1>11 DEF n

\* A search that met every bit, and only taken ones, leaves nothing to fetch.
LEMMA NoneClear ==
  ASSUME NEW B \in Nat \ {0}, NEW h \in Nat, h * ByteBits \in 0 .. B - 1,
         NEW taken, NEW p \in Nat, p >= h * ByteBits + B,
         \A a \in h * ByteBits .. p - 1 : a % B \in {0, 1} \cup taken
  PROVE  Fetch(taken, B, h) = 0
  <1> DEFINE s == h * ByteBits
             S(m) == ScanPosition(m, B, h)
  <1>1. \A m \in 0 .. B - 1 : S(m) \in 0 .. B - 1 /\ (s + S(m)) % B = m
    BY Unscan
  <1>2. s \in 0 .. B - 1 /\ p >= s + B
    OBVIOUS
  <1>3. \A a \in s .. p - 1 : a % B \in {0, 1} \cup taken
    OBVIOUS
  <1> HIDE DEF s, S
  <1>4. \A m \in 0 .. B - 1 : s + S(m) \in s .. p - 1
    BY <1>1, <1>2
  <1>5. \A m \in 0 .. B - 1 : m \in {0, 1} \cup taken
    BY <1>1, <1>3, <1>4
  <1>6. Clear(taken, B) = {}
    BY <1>5 DEF Clear
  <1> QED
    BY <1>6 DEF Fetch

\* The first bit of a byte of the map.
LEMMA ByteStart ==
  ASSUME NEW n \in Nat
  PROVE  ByteOf(n) \in Nat /\ ByteOf(n) * ByteBits <= n
  BY BitmapAssumption DEF ByteOf

\* A multiple of the size of a byte is the first bit of its byte.
LEMMA WholeBytes ==
  ASSUME NEW n \in Nat, n % ByteBits = 0
  PROVE  n = ByteOf(n) * ByteBits
  BY BitmapAssumption DEF ByteOf
=============================================================================
