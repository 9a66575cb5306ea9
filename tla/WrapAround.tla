------------------------------ MODULE WrapAround ------------------------------
(***************************************************************************)
(* Arithmetic of positions that wrap around.  The rings of the native code *)
(* keep unsigned positions that wrap at 2^32 or 2^64 and take them modulo  *)
(* the ring's size for a cell; these lemmas say what survives of counting  *)
(* without a limit.                                                        *)
(***************************************************************************)
EXTENDS Integers, TLAPS

LEMMA Quotient ==
  ASSUME NEW D \in Nat \ {0}, NEW a \in Int
  PROVE  \E q \in Int, r \in 0 .. D - 1 : a = D * q + r /\ a % D = r
  OBVIOUS

LEMMA ModType ==
  ASSUME NEW D \in Nat \ {0}, NEW a \in Int
  PROVE  a % D \in 0 .. D - 1 /\ a % D \in Int
  OBVIOUS

LEMMA ModUnique ==
  ASSUME NEW D \in Nat \ {0}, NEW q \in Int, NEW r \in 0 .. D - 1
  PROVE  (D * q + r) % D = r
  OBVIOUS

(* A value below the modulus is itself. *)
LEMMA ModSmall ==
  ASSUME NEW D \in Nat \ {0}, NEW a \in 0 .. D - 1
  PROVE  a % D = a
  OBVIOUS

LEMMA ModShift ==
  ASSUME NEW D \in Nat \ {0}, NEW a \in Int, NEW k \in Int
  PROVE  (a + D * k) % D = a % D
  <1>1. PICK q \in Int, r \in 0 .. D - 1 : a = D * q + r /\ a % D = r
    BY Quotient, Zenon
  <1>2. q + k \in Int /\ (D * q + r) + D * k = D * (q + k) + r
    OBVIOUS
  <1>3. a + D * k = D * (q + k) + r
    BY <1>1, <1>2, Zenon
  <1>4. (D * (q + k) + r) % D = r
    BY <1>2, ModUnique, Zenon
  <1> QED BY <1>1, <1>3, <1>4, Zenon

(* Stepping a wrapped position steps the position. *)
LEMMA ModAdd ==
  ASSUME NEW D \in Nat \ {0}, NEW a \in Int, NEW b \in Int
  PROVE  ((a % D) + b) % D = (a + b) % D
  <1>1. PICK q \in Int, r \in 0 .. D - 1 : a = D * q + r /\ a % D = r
    BY Quotient, Zenon
  <1>2. r + b \in Int /\ (D * q + r) + b = (r + b) + D * q
    OBVIOUS
  <1>3. a + b = (r + b) + D * q
    BY <1>1, <1>2, Zenon
  <1>4. ((r + b) + D * q) % D = (r + b) % D
    BY <1>2, ModShift, Zenon
  <1> QED BY <1>1, <1>3, <1>4, Zenon

(* The wrapped difference of wrapped positions. *)
LEMMA ModSub ==
  ASSUME NEW D \in Nat \ {0}, NEW a \in Int, NEW b \in Int
  PROVE  ((a % D) - (b % D)) % D = (a - b) % D
  <1>1. PICK q \in Int, r \in 0 .. D - 1 : b = D * q + r /\ b % D = r
    BY Quotient, Zenon
  <1>2. PICK t \in 0 .. D - 1 : a % D = t
    BY ModType, Zenon
  <1>3. (t - r) % D = (a - r) % D
    <2>1. -r \in Int /\ t - r = t + (-r) /\ a - r = a + (-r)
      OBVIOUS
    <2>2. ((a % D) + (-r)) % D = (a + (-r)) % D
      BY <2>1, ModAdd, Zenon
    <2> QED BY <1>2, <2>1, <2>2, Zenon
  <1>4. a - (D * q + r) \in Int /\ a - r = (a - (D * q + r)) + D * q
    OBVIOUS
  <1>5. a - r = (a - b) + D * q /\ a - b \in Int
    BY <1>1, <1>4, Zenon
  <1>6. ((a - b) + D * q) % D = (a - b) % D
    BY <1>5, ModShift, Zenon
  <1> QED BY <1>1, <1>2, <1>3, <1>5, <1>6, Zenon

(* Wrapping at a multiple of the ring's size leaves the cell as it is. *)
LEMMA ModMod ==
  ASSUME NEW D \in Nat \ {0}, NEW M \in Nat \ {0}, M % D = 0, NEW a \in Int
  PROVE  (a % M) % D = a % D
  <1>1. PICK q \in Int, r \in 0 .. M - 1 : a = M * q + r /\ a % M = r
    BY Quotient, Zenon
  <1>2. PICK k \in Int : M = D * k
    <2>1. M \in Int
      OBVIOUS
    <2>2. PICK k \in Int, s \in 0 .. D - 1 : M = D * k + s /\ M % D = s
      BY <2>1, Quotient, Zenon
    <2>3. D * k + 0 = D * k
      OBVIOUS
    <2> QED BY <2>2, <2>3
  <1>3. (D * k) * q + r = r + D * (k * q) /\ k * q \in Int /\ r \in Int
    OBVIOUS
  <1>4. a = r + D * (k * q)
    BY <1>1, <1>2, <1>3, Zenon
  <1>5. (r + D * (k * q)) % D = r % D
    BY <1>3, ModShift, Zenon
  <1> QED BY <1>1, <1>4, <1>5, Zenon

(* Positions less than one turn apart are in different cells. *)
LEMMA ModDistinct ==
  ASSUME NEW D \in Nat \ {0}, NEW a \in Int, NEW b \in Int,
         a % D = b % D, -D < a - b, a - b < D
  PROVE  a = b
  <1>1. PICK t \in 0 .. D - 1 : a % D = t
    BY ModType, Zenon
  <1>2. (t - t) % D = 0
    OBVIOUS
  <1>3. (a - b) % D = 0 /\ (b - a) % D = 0
    <2>1. /\ ((a % D) - (b % D)) % D = (a - b) % D
          /\ ((b % D) - (a % D)) % D = (b - a) % D
      BY ModSub, Zenon
    <2>2. (a % D) - (b % D) = t - t /\ (b % D) - (a % D) = t - t
      BY <1>1
    <2> QED BY <1>2, <2>1, <2>2, Zenon
  <1>4. CASE a - b >= 0
    <2>1. a - b \in 0 .. D - 1 /\ (a - b) % D = a - b
      BY <1>4
    <2> QED BY <1>3, <2>1
  <1>5. CASE b - a >= 0
    <2>1. b - a \in 0 .. D - 1 /\ (b - a) % D = b - a
      BY <1>5
    <2> QED BY <1>3, <2>1
  <1> QED BY <1>4, <1>5
===============================================================================
