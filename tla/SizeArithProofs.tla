-------------------------- MODULE SizeArithProofs --------------------------
(***************************************************************************)
(* The width of int and size_t makes no difference to requests and gaps of *)
(* at most INT_MAX bytes in total, whatever the widths are: no conversion  *)
(* and no wrap changes a number between zero and INT_MAX.                  *)
(***************************************************************************)
EXTENDS SizeArith, AllocDefsProofs

(* A number below the modulus is its own remainder.                        *)
LEMMA SmallMod ==
  ASSUME NEW m \in Nat \ {0}, NEW x \in Nat, x < m
  PROVE  x % m = x
  OBVIOUS

(* Numbers up to INT_MAX survive both conversions.                         *)
LEMMA Converted ==
  ASSUME NEW x \in Nat, x <= INT_MAX
  PROVE  size_t(x) = x /\ int(x) = x
<1>1. \A m \in Nat \ {0} : x < m => x % m = x
  BY SmallMod
<1>2. x < 2^SIZE_BITS /\ x < 2^INT_BITS
  BY LimitsAssumption
<1>3. x % 2^SIZE_BITS = x /\ x % 2^INT_BITS = x
  BY <1>1, <1>2, LimitsAssumption
<1>4. QED
  BY <1>2, <1>3, LimitsAssumption DEF size_t, int

(* What Decide answers for n bytes and a gap of g.                         *)
Decision(n, g) ==
  [decided |-> TRUE,
   start  |-> fits_start(n, g),
   tail   |-> fits_tail(n, g),
   grow   |-> to_grow(n, g),
   shrink |-> to_shrink(g)]

(* The rounding and the overhead are added without a wrap.                 *)
LEMMA TotalExact ==
  ASSUME NEW n \in Nat, TotalSize(n) <= INT_MAX
  PROVE  /\ total_size(n) = TotalSize(n) /\ int(TotalSize(n)) = TotalSize(n)
         /\ size_t(n) = n /\ TotalSize(n) \in Nat
<1>1. /\ TotalSize(n) = SEG_HEAD + round_up(n, ALIGNMENT) + SEG_TAIL /\ TotalSize(n) \in Nat
      /\ round_up(n, ALIGNMENT) \in Nat /\ round_up(n, ALIGNMENT) >= n
      /\ SEG_HEAD \in Nat /\ SEG_TAIL \in Nat
  BY TotalSizeFacts, RoundUp, LayoutAssumption
<1>2. /\ round_up(n, ALIGNMENT) <= INT_MAX /\ n <= INT_MAX
  BY <1>1, LimitsAssumption
<1>3. size_t(round_up(n, ALIGNMENT)) = round_up(n, ALIGNMENT) /\ size_t(n) = n
  BY <1>1, <1>2, Converted
<1>4. effective_size(n) = round_up(n, ALIGNMENT)
  BY <1>3 DEF effective_size, round_up
<1>5. size_t(TotalSize(n)) = TotalSize(n) /\ int(TotalSize(n)) = TotalSize(n)
  BY <1>1, Converted
<1>6. total_size(n) = TotalSize(n)
  BY <1>1, <1>4, <1>5 DEF total_size
<1>7. QED
  BY <1>1, <1>3, <1>5, <1>6

(* The request has come in as a size_t, and the answer is the code's.      *)
AIInv ==
  /\ wanted \in Nat /\ gap \in Nat /\ size = size_t(wanted)
  /\ answer # None => answer = Decision(size, gap)

(* For every width, every malloc and calloc of at most INT_MAX bytes in    *)
(* total and every gap up to INT_MAX, the code decides as unbounded        *)
(* arithmetic would.                                                       *)
THEOREM ExactBelowIntMax == ASpec => []ExactUpToIntMax
<1>1. AInit => AIInv
  <2>1. 0 % 2^SIZE_BITS = 0
    BY LimitsAssumption, SmallMod
  <2>2. QED
    BY <2>1 DEF AInit, AIInv, size_t
<1>2. AIInv /\ [ANext]_avars => AIInv'
  <2> SUFFICES ASSUME AIInv, [ANext]_avars PROVE AIInv'
    OBVIOUS
  <2>1. CASE Ask
    <3>1. PICK n_memb \in Counts, n \in Requests, g \in Gaps :
            wanted' = n_memb * n /\ size' = size_t(n_memb * n) /\ gap' = g /\ answer' = None
      BY <2>1 DEF Ask
    <3>2. n_memb \in Nat /\ n \in Nat /\ g \in Nat
      BY WidthAssumption
    <3>3. n_memb * n \in Nat
      BY <3>2
    <3>4. QED
      BY <3>1, <3>2, <3>3 DEF AIInv, size_t
  <2>2. CASE Decide
    BY <2>2 DEF Decide, AIInv, Decision, size_t
  <2>3. CASE UNCHANGED avars
    BY <2>3 DEF avars, AIInv, Decision, size_t
  <2>4. QED
    BY <2>1, <2>2, <2>3 DEF ANext
<1>3. AIInv => ExactUpToIntMax
  <2> SUFFICES ASSUME AIInv, answer # None, TotalSize(wanted) <= INT_MAX, gap <= INT_MAX
               PROVE  answer = Exact
    BY DEF ExactUpToIntMax
  <2>1. /\ wanted \in Nat /\ gap \in Nat /\ size = wanted /\ answer = Decision(wanted, gap)
        /\ total_size(wanted) = TotalSize(wanted) /\ int(TotalSize(wanted)) = TotalSize(wanted)
        /\ TotalSize(wanted) \in Nat
    BY TotalExact DEF AIInv
  <2>2. int(gap) = gap
    BY <2>1, Converted
  <2>3. to_grow(wanted, gap) = Exact.grow
    BY <2>1, <2>2 DEF to_grow, Exact
  <2>4. fits_start(wanted, gap) = (gap >= TotalSize(wanted))
        /\ fits_tail(wanted, gap) = (gap >= TotalSize(wanted))
    BY <2>1, <2>2 DEF fits_start, fits_tail
  <2>5. to_shrink(gap) = Exact.shrink
    <3>1. int(PAGE_SIZE) = PAGE_SIZE /\ PAGE_SIZE \in Nat
      BY Converted, LimitsAssumption, LayoutAssumption
    <3>2. PageFloor(gap) \in Nat /\ PageFloor(gap) <= gap
      BY <2>1, PageFloorFacts
    <3>3. int(PageFloor(gap)) = PageFloor(gap)
      BY <3>2, <2>1, Converted, LimitsAssumption
    <3>4. QED
      BY <3>1, <3>3, <2>1, <2>2 DEF to_shrink, Exact
  <2>6. QED
    BY <2>1, <2>3, <2>4, <2>5 DEF Decision, Exact
<1>4. QED
  BY <1>1, <1>2, <1>3, PTL DEF ASpec
=============================================================================
