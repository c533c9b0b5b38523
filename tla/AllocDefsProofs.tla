--------------------------- MODULE AllocDefsProofs ---------------------------
(***************************************************************************)
(* The arithmetic the proofs about the segment list rest on: what rounding *)
(* to ALIGNMENT and to PAGE_SIZE returns, and that alignment is preserved  *)
(* by sums, differences and products.                                      *)
(***************************************************************************)
EXTENDS AllocDefs, TLAPS

(* Division with remainder, for any positive divisor.                      *)
LEMMA DivMod ==
  ASSUME NEW m \in Nat \ {0}, NEW n \in Int
  PROVE  /\ n \div m \in Int
         /\ n % m \in 0..(m - 1)
         /\ n = (m * (n \div m)) + (n % m)
  OBVIOUS

(* A multiple leaves no remainder.                                         *)
LEMMA ModOfMultiple ==
  ASSUME NEW m \in Nat \ {0}, NEW q \in Int
  PROVE  (m * q) % m = 0
  OBVIOUS

(* A number without remainder is m times its quotient.                     *)
LEMMA MultipleOfMod ==
  ASSUME NEW m \in Nat \ {0}, NEW n \in Int, n % m = 0
  PROVE  n = m * (n \div m)
  BY DivMod

(* Sums of numbers without remainder have none.                            *)
LEMMA ModSum ==
  ASSUME NEW m \in Nat \ {0}, NEW x \in Int, NEW y \in Int,
         x % m = 0, y % m = 0
  PROVE  (x + y) % m = 0
<1> DEFINE p == x \div m
           q == y \div m
<1>1. p \in Int /\ q \in Int /\ x = m * p /\ y = m * q
  BY DivMod, MultipleOfMod
<1> HIDE DEF p, q
<1>2. x + y = m * (p + q)
  BY <1>1
<1>3. QED
  BY <1>1, <1>2, ModOfMultiple

(* So have differences.                                                    *)
LEMMA ModDiff ==
  ASSUME NEW m \in Nat \ {0}, NEW x \in Int, NEW y \in Int,
         x % m = 0, y % m = 0
  PROVE  (x - y) % m = 0
<1> DEFINE p == x \div m
           q == y \div m
<1>1. p \in Int /\ q \in Int /\ x = m * p /\ y = m * q
  BY DivMod, MultipleOfMod
<1> HIDE DEF p, q
<1>2. x - y = m * (p - q)
  BY <1>1
<1>3. QED
  BY <1>1, <1>2, ModOfMultiple

(* And multiples of such a number.                                         *)
LEMMA ModProduct ==
  ASSUME NEW m \in Nat \ {0}, NEW x \in Int, NEW k \in Int, x % m = 0
  PROVE  (x * k) % m = 0
<1> DEFINE p == x \div m
<1>1. p \in Int /\ x = m * p
  BY DivMod, MultipleOfMod
<1> HIDE DEF p
<1>2. x * k = m * (p * k) /\ p * k \in Int
  BY <1>1
<1>3. QED
  BY <1>2, ModOfMultiple

(* round_up returns the least multiple of ALIGNMENT at or above n.         *)
LEMMA RoundUp ==
  ASSUME NEW n \in Nat
  PROVE  /\ round_up(n, ALIGNMENT) \in Nat
         /\ round_up(n, ALIGNMENT) >= n
         /\ round_up(n, ALIGNMENT) < n + ALIGNMENT
         /\ Aligned(round_up(n, ALIGNMENT))
<1>1. n % ALIGNMENT \in 0..(ALIGNMENT - 1) /\ ALIGNMENT \in Nat \ {0}
  BY DivMod, LayoutAssumption
<1>2. round_up(n, ALIGNMENT) \in Nat /\ round_up(n, ALIGNMENT) >= n
        /\ round_up(n, ALIGNMENT) < n + ALIGNMENT
  BY <1>1 DEF round_up
<1>3. CASE n % ALIGNMENT = 0
  BY <1>2, <1>3 DEF round_up, Aligned
<1>4. CASE n % ALIGNMENT # 0
  <2> DEFINE q == n \div ALIGNMENT
  <2>1. q \in Int /\ n = (ALIGNMENT * q) + (n % ALIGNMENT)
    BY DivMod, LayoutAssumption
  <2> HIDE DEF q
  <2>2. round_up(n, ALIGNMENT) = (n + ALIGNMENT) - (n % ALIGNMENT)
    BY <1>4 DEF round_up
  <2>3. round_up(n, ALIGNMENT) = (ALIGNMENT * q) + ALIGNMENT
    BY <2>1, <2>2, <1>1
  <2>4. (ALIGNMENT * q) + ALIGNMENT = ALIGNMENT * (q + 1)
    BY <1>1, <2>1
  <2>5. QED
    BY <2>1, <2>3, <2>4, <1>1, <1>2, ModOfMultiple DEF Aligned
<1>5. QED
  BY <1>3, <1>4

(* round_up leaves an aligned number alone.                                *)
LEMMA RoundUpAligned ==
  ASSUME NEW n \in Nat, Aligned(n)
  PROVE  round_up(n, ALIGNMENT) = n
  BY DEF round_up, Aligned

(* round_up is monotone: a smaller request never needs more room.          *)
LEMMA RoundUpMonotone ==
  ASSUME NEW n \in Nat, NEW k \in Nat, n <= k
  PROVE  round_up(n, ALIGNMENT) <= round_up(k, ALIGNMENT)
<1> DEFINE rn == round_up(n, ALIGNMENT)
           rk == round_up(k, ALIGNMENT)
           p  == rn \div ALIGNMENT
           q  == rk \div ALIGNMENT
<1>1. /\ rn \in Nat /\ rn < n + ALIGNMENT /\ rn % ALIGNMENT = 0
      /\ rk \in Nat /\ rk >= k /\ rk % ALIGNMENT = 0
      /\ ALIGNMENT \in Nat \ {0}
  BY RoundUp, LayoutAssumption DEF Aligned
<1> HIDE DEF rn, rk
<1>2. p \in Int /\ q \in Int /\ rn = ALIGNMENT * p /\ rk = ALIGNMENT * q
  BY <1>1, MultipleOfMod, DivMod
<1> HIDE DEF p, q
<1>3. SUFFICES ASSUME rn > rk PROVE FALSE
  BY <1>1 DEF rn, rk
<1>4. p > q
  <2>1. SUFFICES ASSUME p <= q PROVE FALSE
    BY <1>2
  <2>2. ALIGNMENT * p <= ALIGNMENT * q
    BY <2>1, <1>1, <1>2
  <2>3. QED
    BY <2>2, <1>1, <1>2, <1>3
<1>5. ALIGNMENT * p >= (ALIGNMENT * q) + ALIGNMENT
  <2>1. PICK d \in Nat : p = q + 1 + d
    <3>1. p - (q + 1) \in Nat /\ p = q + 1 + (p - (q + 1))
      BY <1>2, <1>4
    <3>2. QED
      BY <3>1
  <2>2. ALIGNMENT * (q + 1 + d) = (ALIGNMENT * q) + ALIGNMENT + (ALIGNMENT * d)
    BY <2>1, <1>1, <1>2
  <2>3. ALIGNMENT * d >= 0 /\ ALIGNMENT * d \in Int /\ ALIGNMENT * q \in Int
    BY <2>1, <1>1, <1>2
  <2>4. QED
    BY <2>1, <2>2, <2>3, <1>1
<1>6. rn >= rk + ALIGNMENT
  BY <1>2, <1>5
<1>7. QED
  BY <1>1, <1>6

(* A segment's total size: aligned, and larger than its fixed parts.       *)
LEMMA TotalSizeFacts ==
  ASSUME NEW n \in Nat
  PROVE  /\ TotalSize(n) \in Nat
         /\ TotalSize(n) = SEG_HEAD + round_up(n, ALIGNMENT) + SEG_TAIL
         /\ Aligned(TotalSize(n))
<1>1. TotalSize(n) \in Nat
  BY RoundUp, LayoutAssumption DEF TotalSize
<1>2. Aligned(SEG_HEAD + round_up(n, ALIGNMENT))
  BY RoundUp, ModSum, LayoutAssumption DEF Aligned
<1>3. Aligned((SEG_HEAD + round_up(n, ALIGNMENT)) + SEG_TAIL)
  BY <1>2, RoundUp, ModSum, LayoutAssumption DEF Aligned
<1>4. QED
  BY <1>1, <1>3 DEF TotalSize

(* expand_list's request: whole pages, aligned, and enough.                *)
LEMMA PageCeilFacts ==
  ASSUME NEW n \in Nat
  PROVE  /\ PageCeil(n) \in Nat
         /\ PageCeil(n) >= n
         /\ PageCeil(n) < n + PAGE_SIZE
         /\ PageCeil(n) % PAGE_SIZE = 0
         /\ Aligned(PageCeil(n))
<1> DEFINE q == (n + (PAGE_SIZE - 1)) \div PAGE_SIZE
           r == (n + (PAGE_SIZE - 1)) % PAGE_SIZE
<1>1. /\ PAGE_SIZE \in Nat \ {0} /\ n + (PAGE_SIZE - 1) \in Nat
      /\ q \in Int /\ r \in 0..(PAGE_SIZE - 1)
      /\ n + (PAGE_SIZE - 1) = (PAGE_SIZE * q) + r
  BY DivMod, LayoutAssumption
<1>2. PageCeil(n) = PAGE_SIZE * q
  BY DEF PageCeil
<1> HIDE DEF q, r
<1>3. PAGE_SIZE * q \in Int
  BY <1>1
<1>4. PageCeil(n) >= n /\ PageCeil(n) < n + PAGE_SIZE /\ PageCeil(n) \in Nat
  BY <1>1, <1>2, <1>3
<1>5. PageCeil(n) % PAGE_SIZE = 0
  BY <1>1, <1>2, ModOfMultiple
<1>6. Aligned(PageCeil(n))
  <2>1. (PAGE_SIZE * q) % ALIGNMENT = 0
    <3>1. /\ ALIGNMENT \in Nat \ {0} /\ PAGE_SIZE \in Int /\ q \in Int
          /\ PAGE_SIZE % ALIGNMENT = 0
      BY <1>1, LayoutAssumption
    <3>2. QED
      BY ONLY <3>1, ModProduct
  <2>2. QED
    BY <2>1, <1>2 DEF Aligned
<1>7. QED
  BY <1>4, <1>5, <1>6

(* remove_segment's contraction: whole pages, aligned, and within n.       *)
LEMMA PageFloorFacts ==
  ASSUME NEW n \in Nat
  PROVE  /\ PageFloor(n) \in Nat
         /\ PageFloor(n) <= n
         /\ n < PageFloor(n) + PAGE_SIZE
         /\ PageFloor(n) % PAGE_SIZE = 0
         /\ Aligned(PageFloor(n))
<1> DEFINE q == n \div PAGE_SIZE
           r == n % PAGE_SIZE
<1>1. /\ PAGE_SIZE \in Nat \ {0}
      /\ q \in Int /\ r \in 0..(PAGE_SIZE - 1)
      /\ n = (PAGE_SIZE * q) + r
  BY DivMod, LayoutAssumption
<1>2. PageFloor(n) = PAGE_SIZE * q
  BY DEF PageFloor
<1>3. q \in Nat
  BY LayoutAssumption
<1> HIDE DEF q, r
<1>4. PAGE_SIZE * q \in Nat
  BY <1>1, <1>3
<1>5. PageFloor(n) <= n /\ n < PageFloor(n) + PAGE_SIZE /\ PageFloor(n) \in Nat
  BY <1>1, <1>2, <1>4
<1>6. PageFloor(n) % PAGE_SIZE = 0
  BY <1>1, <1>2, ModOfMultiple
<1>7. Aligned(PageFloor(n))
  <2>1. (PAGE_SIZE * q) % ALIGNMENT = 0
    <3>1. /\ ALIGNMENT \in Nat \ {0} /\ PAGE_SIZE \in Int /\ q \in Int
          /\ PAGE_SIZE % ALIGNMENT = 0
      BY <1>1, LayoutAssumption
    <3>2. QED
      BY ONLY <3>1, ModProduct
  <2>2. QED
    BY <2>1, <1>2 DEF Aligned
<1>8. QED
  BY <1>5, <1>6, <1>7
=============================================================================
