---------------------------- MODULE StratsProofs ----------------------------
(***************************************************************************)
(* Every search of strats.c returns the gap its strategy is named for, on  *)
(* every list the inductive invariant of SegListProofs allows.             *)
(*                                                                         *)
(* The invariant of a running search, ScanOK, says of the loop's tail t    *)
(* which gap is the one to return among those seen so far: the gaps that   *)
(* start at or below t (next_fit: also above last_addr).  A loop step      *)
(* adds the gap behind t, and because the list is sorted nothing lies      *)
(* between t and the tail that follows.                                    *)
(***************************************************************************)
EXTENDS Strats, SegListProofs

-----------------------------------------------------------------------------
(* Tails and gaps in address order.                                        *)

(* Tails are ordered as their headers are, all above the list header, and  *)
(* a tail ends before the next one starts.                                 *)
LEMMA TailOrder ==
  ASSUME IInv
  PROVE  /\ \A t \in DOMAIN tail : /\ t \in Nat /\ Base < t /\ t < end_addr
                                   /\ tail[t].free_following \in Nat
         /\ \A t, u \in DOMAIN tail : t < u => t + SEG_TAIL < u
         /\ \A h, k \in Live : h < k <=> TailOf(h) < TailOf(k)
<1>1. Ordered /\ Base \in Nat /\ end_addr \in Nat /\ SEG_TAIL \in Nat \ {0}
  BY IInvFacts, LayoutAssumption
<1>2. \A t \in DOMAIN tail : \E h \in Live : t = TailOf(h)
  BY <1>1, Neighbours DEF Ordered
<1>3. \A h \in Live : /\ h \in Nat /\ TailOf(h) \in Nat /\ h < TailOf(h)
                      /\ TailOf(h) \in DOMAIN tail /\ GapOf(h) \in Nat
                      /\ EndOf(h) = TailOf(h) + SEG_TAIL
  BY <1>1, FieldTypes DEF Ordered
<1>4. \A h \in Live : Base <= h /\ TailOf(h) + SEG_TAIL <= end_addr
  <2>1. TAKE h \in Live
  <2>2. Base <= first_seg /\ first_seg <= h /\ EndOf(h) + GapOf(h) <= end_addr
        /\ first_seg \in Nat
    BY <1>1, Geometry, IInvFacts
  <2>3. QED
    BY <2>2, <1>1, <1>3
<1>5. \A h, k \in Live : h < k => TailOf(h) + SEG_TAIL <= k
  <2>1. TAKE h, k \in Live
  <2>2. HAVE h < k
  <2>3. EndOf(h) + GapOf(h) <= k
    BY <2>2, <1>1, Geometry
  <2>4. QED
    BY <2>3, <1>1, <1>3
<1>6. \A h, k \in Live : /\ h < k <=> TailOf(h) < TailOf(k)
                         /\ TailOf(h) < TailOf(k) => TailOf(h) + SEG_TAIL < TailOf(k)
  <2>1. TAKE h, k \in Live
  <2>2. h < k \/ k < h \/ h = k
    BY <1>3
  <2>3. /\ h < k => TailOf(h) + SEG_TAIL <= k
        /\ k < h => TailOf(k) + SEG_TAIL <= h
    BY <1>5
  <2>4. /\ h \in Nat /\ k \in Nat /\ TailOf(h) \in Nat /\ TailOf(k) \in Nat
        /\ h < TailOf(h) /\ k < TailOf(k)
    BY <1>3
  <2>5. QED
    BY <2>2, <2>3, <2>4, <1>1
<1>7. \A t \in DOMAIN tail : /\ t \in Nat /\ Base < t /\ t < end_addr
                             /\ tail[t].free_following \in Nat
  <2>1. TAKE t \in DOMAIN tail
  <2>2. PICK h \in Live : t = TailOf(h)
    BY <1>2
  <2>3. tail[t].free_following = GapOf(h)
    BY <2>2 DEF GapOf, TailOf
  <2>4. QED
    BY <2>2, <2>3, <1>1, <1>3, <1>4
<1>8. QED
  BY <1>2, <1>6, <1>7

(* The tail an iterator moves to is the next one in address order, and the *)
(* loop's condition tells whether there is one.                            *)
LEMMA NextTail ==
  ASSUME IInv, NEW t \in DOMAIN tail
  PROVE  /\ Following(t) \in DOMAIN tail
         /\ LoopGoesOn(Following(t)) <=> t < Following(t)
         /\ \/ t < Following(t) /\ \A u \in DOMAIN tail : u <= t \/ u >= Following(t)
            \/ ~ (t < Following(t)) /\ \A u \in DOMAIN tail : u <= t
<1>1. Ordered
  BY IInvFacts
<1>2. PICK h \in Live : h = tail[t].prev_seg_head /\ t = TailOf(h)
  BY <1>1, Neighbours DEF Ordered
<1>3. PICK n \in Live : n = NextHead(h) /\ Following(t) = TailOf(n) /\ head[n].prev_seg_tail = t
  <2>1. NextHead(h) \in Live /\ head[NextHead(h)].prev_seg_tail = t
    BY <1>1, <1>2, Neighbours, FieldTypes DEF Ordered
  <2>2. NextHead(h) = tail[t].next_seg_head
    BY <1>2 DEF NextHead, TailOf
  <2>3. Following(t) = TailOf(NextHead(h))
    BY <2>2 DEF Following, TailOf
  <2>4. QED
    BY <2>1, <2>3
<1>4. Following(t) \in DOMAIN tail /\ tail[Following(t)].prev_seg_head = n
  BY <1>1, <1>3, FieldTypes DEF Ordered, ListLinked, TailOf
<1>5. LoopGoesOn(Following(t)) <=> t < Following(t)
  BY <1>3, <1>4 DEF LoopGoesOn
<1>6. \A u \in DOMAIN tail : \E k \in Live : u = TailOf(k)
  BY <1>1, Neighbours DEF Ordered
<1>7. \A k \in Live : k \in Nat /\ TailOf(k) \in DOMAIN tail /\ TailOf(k) \in Nat
  BY <1>1, FieldTypes DEF Ordered
<1>8. CASE n > h /\ \A k \in Live : k <= h \/ k >= n
  <2>1. t < Following(t)
    BY <1>2, <1>3, <1>7, <1>8, TailOrder
  <2>2. ASSUME NEW k \in Live PROVE TailOf(k) <= t \/ TailOf(k) >= Following(t)
    <3>1. ~ (h < k) \/ ~ (k < n)
      BY <1>7, <1>8
    <3>2. ~ (TailOf(h) < TailOf(k)) \/ ~ (TailOf(k) < TailOf(n))
      BY <3>1, TailOrder
    <3>3. QED
      BY <3>2, <1>2, <1>3, <1>7
  <2>3. QED
    BY <2>1, <2>2, <1>4, <1>5, <1>6
<1>9. CASE ~ (n > h) /\ \A k \in Live : k <= h
  <2>1. ~ (t < Following(t))
    BY <1>2, <1>3, <1>7, <1>9, TailOrder
  <2>2. ASSUME NEW k \in Live PROVE TailOf(k) <= t
    <3>1. ~ (h < k)
      BY <1>7, <1>9
    <3>2. ~ (TailOf(h) < TailOf(k))
      BY <3>1, TailOrder
    <3>3. QED
      BY <3>2, <1>2, <1>7
  <2>3. QED
    BY <2>1, <2>2, <1>4, <1>5, <1>6
<1>10. QED
  BY <1>1, <1>3, <1>7, <1>8, <1>9 DEF Ordered, AddressOrder

(* The fitting gaps: the one behind the list header, and those behind a    *)
(* tail.                                                                   *)
LEMMA GapPlaces ==
  ASSUME IInv, NEW size
  PROVE  /\ \A g \in FittingGaps(size) :
              \/ g = Base /\ StartGap >= TotalSize(size)
              \/ \E t \in DOMAIN tail : /\ g = t + SEG_TAIL
                                        /\ tail[t].free_following >= TotalSize(size)
         /\ StartGap >= TotalSize(size) => Base \in FittingGaps(size)
         /\ \A t \in DOMAIN tail :
              /\ t + SEG_TAIL # Base /\ GapAt(t + SEG_TAIL) = tail[t].free_following
              /\ t + SEG_TAIL \in FittingGaps(size)
                   <=> tail[t].free_following >= TotalSize(size)
         /\ GapAt(Base) = StartGap
         /\ FittingGaps(size) \subseteq Nat \ {0}
         /\ \A g \in FittingGaps(size) : GapAt(g) >= TotalSize(size)
<1>1. Base \in Nat \ {0} /\ SEG_TAIL \in Nat \ {0}
  BY IInvFacts, LayoutAssumption
<1>2. \A t \in DOMAIN tail : /\ t \in Nat /\ t + SEG_TAIL # Base
                             /\ (t + SEG_TAIL) - SEG_TAIL = t
                             /\ t + SEG_TAIL \in Nat \ {0}
  BY <1>1, TailOrder
<1>3. \A g \in FittingGaps(size) :
              \/ g = Base /\ StartGap >= TotalSize(size)
              \/ \E t \in DOMAIN tail : /\ g = t + SEG_TAIL
                                        /\ tail[t].free_following >= TotalSize(size)
  BY DEF FittingGaps
<1>4. \A t \in DOMAIN tail : GapAt(t + SEG_TAIL) = tail[t].free_following
  BY <1>2 DEF GapAt
<1>5. \A t \in DOMAIN tail : t + SEG_TAIL \in FittingGaps(size)
                               <=> tail[t].free_following >= TotalSize(size)
  <2>1. TAKE t \in DOMAIN tail
  <2>2. ASSUME tail[t].free_following >= TotalSize(size)
        PROVE  t + SEG_TAIL \in FittingGaps(size)
    BY <2>2 DEF FittingGaps
  <2>3. ASSUME t + SEG_TAIL \in FittingGaps(size)
        PROVE  tail[t].free_following >= TotalSize(size)
    <3>1. PICK u \in DOMAIN tail : /\ t + SEG_TAIL = u + SEG_TAIL
                                   /\ tail[u].free_following >= TotalSize(size)
      BY <2>3, <1>2, <1>3
    <3>2. t = u
      BY <3>1, <1>1, <1>2
    <3>3. QED
      BY <3>1, <3>2
  <2>4. QED
    BY <2>2, <2>3
<1>6. /\ StartGap >= TotalSize(size) => Base \in FittingGaps(size)
      /\ GapAt(Base) = StartGap
  BY DEF FittingGaps, GapAt
<1>7. FittingGaps(size) \subseteq Nat \ {0}
  BY <1>1, <1>2, <1>3
<1>8. \A g \in FittingGaps(size) : GapAt(g) >= TotalSize(size)
  BY <1>3, <1>4, <1>6
<1>9. QED
  BY <1>2, <1>3, <1>4, <1>5, <1>6, <1>7, <1>8

(* Their sizes are natural numbers.                                        *)
LEMMA GapTypes ==
  ASSUME IInv, start # nullptr, NEW size
  PROVE  StartGap \in Nat /\ \A g \in FittingGaps(size) : GapAt(g) \in Nat
<1>1. StartGap \in Nat
  <2>1. Base \in Nat /\ end_addr \in Nat /\ Base <= end_addr /\ first_seg \in Nat
    BY IInvFacts DEF IInv, ArenaInPages
  <2>2. first_seg # nullptr => Base <= first_seg
    BY DEF IInv, FirstIsLowest
  <2>3. QED
    BY <2>1, <2>2 DEF StartGap
<1>2. QED
  BY <1>1, GapPlaces, TailOrder

(* The fitting gaps that start at or below t.                              *)
UpTo(size, t) == {g \in FittingGaps(size) : g <= t}

(* What looking at the gap behind t adds.                                  *)
Behind(size, t) ==
  IF tail[t].free_following >= TotalSize(size) THEN {t + SEG_TAIL} ELSE {}

(* Before the first iteration only the gap behind the list header is seen. *)
LEMMA SeenAtFirst ==
  ASSUME IInv, NEW size, NEW t \in DOMAIN tail, \A u \in DOMAIN tail : t <= u
  PROVE  UpTo(size, t) = IF StartGap >= TotalSize(size) THEN {Base} ELSE {}
<1>1. \A u \in DOMAIN tail : ~ (u + SEG_TAIL <= t)
  BY TailOrder, LayoutAssumption
<1>2. Base <= t
  BY TailOrder, IInvFacts
<1>3. QED
  BY <1>1, <1>2, GapPlaces DEF UpTo

(* Looking at the gap behind t sees all that starts up to the next tail,   *)
(* or all there is when there is none.                                     *)
LEMMA SeenNext ==
  ASSUME IInv, NEW size, NEW t \in DOMAIN tail
  PROVE  /\ t < Following(t)
              => UpTo(size, Following(t)) = UpTo(size, t) \cup Behind(size, t)
         /\ ~ (t < Following(t))
              => FittingGaps(size) = UpTo(size, t) \cup Behind(size, t)
         /\ \A g \in Behind(size, t) : /\ g \in FittingGaps(size) /\ g = t + SEG_TAIL
                                       /\ GapAt(g) = tail[t].free_following
         /\ \A g \in UpTo(size, t) : g \in Nat /\ g < t + SEG_TAIL
         /\ \A g \in FittingGaps(size) \ UpTo(size, t) : g >= t + SEG_TAIL
<1> DEFINE n == Following(t)
<1>1. SEG_TAIL \in Nat \ {0} /\ Base \in Nat
  BY LayoutAssumption, IInvFacts
<1>2. /\ n \in DOMAIN tail
      /\ \/ t < n /\ \A u \in DOMAIN tail : u <= t \/ u >= n
         \/ ~ (t < n) /\ \A u \in DOMAIN tail : u <= t
  BY NextTail
<1> HIDE DEF n
<1>3. \A u \in DOMAIN tail : /\ u \in Nat /\ Base < u
                             /\ \A v \in DOMAIN tail : u < v => u + SEG_TAIL < v
  BY TailOrder
<1>4. \A g \in Behind(size, t) : /\ g \in FittingGaps(size) /\ g = t + SEG_TAIL
                                 /\ GapAt(g) = tail[t].free_following
  BY GapPlaces DEF Behind
<1>5. \A g \in FittingGaps(size) :
        \/ g = Base
        \/ \E u \in DOMAIN tail : g = u + SEG_TAIL /\ (u = t => g \in Behind(size, t))
  BY GapPlaces DEF Behind
<1>6. \A g \in FittingGaps(size) :
        g <= t \/ g \in Behind(size, t) \/ \E u \in DOMAIN tail : g = u + SEG_TAIL /\ t < u
  BY <1>1, <1>3, <1>5
<1>7. \A g \in UpTo(size, t) : g \in Nat /\ g < t + SEG_TAIL
  BY <1>1, <1>3, GapPlaces DEF UpTo
<1>8. \A g \in FittingGaps(size) \ UpTo(size, t) : g >= t + SEG_TAIL
  <2>1. TAKE g \in FittingGaps(size) \ UpTo(size, t)
  <2>2. g \in FittingGaps(size) /\ ~ (g <= t) /\ g \in Nat
    BY GapPlaces DEF UpTo
  <2>3. g = t + SEG_TAIL \/ \E u \in DOMAIN tail : g = u + SEG_TAIL /\ t < u
    BY <2>2, <1>4, <1>6
  <2>4. QED
    BY <2>3, <1>1, <1>3
<1>9. CASE t < n
  <2>1. \A g \in Behind(size, t) : g <= n
    <3>1. t + SEG_TAIL < n /\ n \in Nat /\ t \in Nat
      BY <1>2, <1>3, <1>9
    <3>2. QED
      BY <3>1, <1>1, <1>4
  <2>2. \A g \in UpTo(size, t) : g <= n
    BY <1>2, <1>3, <1>9, GapPlaces DEF UpTo
  <2>3. \A u \in DOMAIN tail : t < u => ~ (u + SEG_TAIL <= n)
    BY <1>1, <1>2, <1>3, <1>9
  <2>4. \A g \in UpTo(size, n) : g \in UpTo(size, t) \cup Behind(size, t)
    BY <2>3, <1>6 DEF UpTo
  <2>5. UpTo(size, n) = UpTo(size, t) \cup Behind(size, t)
    BY <2>1, <2>2, <2>4, <1>4 DEF UpTo
  <2>6. QED
    BY <2>5, <1>4, <1>7, <1>8, <1>9 DEF n
<1>10. CASE ~ (t < n)
  <2>1. \A u \in DOMAIN tail : ~ (t < u)
    BY <1>2, <1>3, <1>10
  <2>2. \A g \in FittingGaps(size) : g \in UpTo(size, t) \cup Behind(size, t)
    BY <2>1, <1>6 DEF UpTo
  <2>3. FittingGaps(size) = UpTo(size, t) \cup Behind(size, t)
    BY <2>2, <1>4 DEF UpTo
  <2>4. QED
    BY <2>3, <1>4, <1>7, <1>8, <1>10 DEF n
<1>11. QED
  BY <1>9, <1>10

-----------------------------------------------------------------------------
(* The gap to return.                                                      *)

(* A set of addresses has one least element.                               *)
LEMMA LowestIs ==
  ASSUME NEW S, S \subseteq Nat, NEW x \in S, \A y \in S : x <= y
  PROVE  Lowest(S) = x
<1>1. \A z \in S : (\A y \in S : z <= y) => z = x
  BY Z3
<1>2. Lowest(S) \in S /\ \A y \in S : Lowest(S) <= y
  BY DEF Lowest
<1>3. QED
  BY <1>1, <1>2

(* alg prefers the gap at a to the gap at g, or the two are the same.      *)
Preferred(alg, a, g) ==
  /\ alg = "best_fit"  => GapAt(a) < GapAt(g) \/ (GapAt(a) = GapAt(g) /\ a <= g)
  /\ alg = "worst_fit" => GapAt(a) > GapAt(g) \/ (GapAt(a) = GapAt(g) /\ a <= g)
  /\ alg = "first_fit" => a <= g
  /\ alg = "next_fit"  => /\ a > last_addr => (g > last_addr => a <= g)
                          /\ ~ (a > last_addr) => g <= last_addr /\ a <= g

(* alg chooses addr among the gaps of S.                                   *)
Chosen(alg, S, addr) ==
  IF S = {} THEN addr = nullptr ELSE addr \in S /\ \A g \in S : Preferred(alg, addr, g)

(* The gap chosen when all have been seen is the one wanted.               *)
LEMMA ChosenIsWanted ==
  ASSUME IInv, start # nullptr, scan.alg \in Strategies, NEW addr,
         Chosen(scan.alg, FittingGaps(scan.size), addr)
  PROVE  addr = Wanted
<1> DEFINE gaps == FittingGaps(scan.size)
           best == {g \in gaps : \A k \in gaps : GapAt(g) <= GapAt(k)}
           worst == {g \in gaps : \A k \in gaps : GapAt(g) >= GapAt(k)}
           near == {g \in gaps : g > last_addr}
<1>1. gaps \subseteq Nat \ {0} /\ last_addr \in Nat
  BY GapPlaces DEF IInv, TypeOK
<1>2. \A g \in gaps : GapAt(g) \in Nat
  BY GapTypes
<1>3. CASE gaps = {}
  BY <1>3 DEF Chosen, Wanted
<1>4. CASE gaps # {} /\ scan.alg = "best_fit"
  <2>1. addr \in gaps
        /\ \A g \in gaps : GapAt(addr) < GapAt(g) \/ (GapAt(addr) = GapAt(g) /\ addr <= g)
    BY <1>4 DEF Chosen, Preferred
  <2>2. addr \in best /\ best \subseteq Nat
    BY <1>1, <1>2, <2>1
  <2>3. ASSUME NEW g \in best PROVE addr <= g
    <3>1. g \in gaps /\ GapAt(g) <= GapAt(addr)
      BY <2>1, <2>3
    <3>2. QED
      BY <3>1, <2>1, <1>2
  <2>4. Lowest(best) = addr
    BY <2>2, <2>3, LowestIs
  <2>5. QED
    BY <2>4, <1>4 DEF Wanted
<1>5. CASE gaps # {} /\ scan.alg = "worst_fit"
  <2>1. addr \in gaps
        /\ \A g \in gaps : GapAt(addr) > GapAt(g) \/ (GapAt(addr) = GapAt(g) /\ addr <= g)
    BY <1>5 DEF Chosen, Preferred
  <2>2. addr \in worst /\ worst \subseteq Nat
    BY <1>1, <1>2, <2>1
  <2>3. ASSUME NEW g \in worst PROVE addr <= g
    <3>1. g \in gaps /\ GapAt(g) >= GapAt(addr)
      BY <2>1, <2>3
    <3>2. QED
      BY <3>1, <2>1, <1>2
  <2>4. Lowest(worst) = addr
    BY <2>2, <2>3, LowestIs
  <2>5. QED
    BY <2>4, <1>5 DEF Wanted
<1>6. CASE gaps # {} /\ scan.alg = "first_fit"
  <2>1. addr \in gaps /\ \A g \in gaps : addr <= g
    BY <1>6 DEF Chosen, Preferred
  <2>2. Lowest(gaps) = addr
    BY <2>1, <1>1, LowestIs
  <2>3. QED
    BY <2>2, <1>6 DEF Wanted
<1>7. CASE gaps # {} /\ scan.alg = "next_fit"
  <2>1. addr \in gaps
        /\ \A g \in gaps : IF addr > last_addr THEN g > last_addr => addr <= g
                           ELSE g <= last_addr /\ addr <= g
    BY <1>7 DEF Chosen, Preferred
  <2>2. Wanted = Lowest(IF near # {} THEN near ELSE gaps)
    BY <1>7 DEF Wanted
  <2>3. CASE addr > last_addr
    <3>1. addr \in near /\ near \subseteq Nat /\ \A g \in near : addr <= g
      BY <2>1, <2>3, <1>1
    <3>2. Lowest(near) = addr
      BY <3>1, LowestIs
    <3>3. QED
      BY <3>1, <3>2, <2>2
  <2>4. CASE ~ (addr > last_addr)
    <3>1. near = {} /\ \A g \in gaps : addr <= g
      BY <2>1, <2>4, <1>1
    <3>2. Lowest(gaps) = addr
      BY <3>1, <2>1, <1>1, LowestIs
    <3>3. QED
      BY <3>1, <3>2, <2>2
  <2>5. QED
    BY <2>3, <2>4
<1>8. QED
  BY <1>3, <1>4, <1>5, <1>6, <1>7 DEF Strategies

-----------------------------------------------------------------------------
(* The invariant of a search.                                              *)

(* In a loop, s.iter is the tail whose gap comes next.                     *)
LoopOK(s) ==
  /\ s.iter \in DOMAIN tail
  /\ s.alg \in {"best_fit", "worst_fit"} =>
       /\ Chosen(s.alg, UpTo(s.size, s.iter), s.addr)
       /\ s.addr # nullptr => s.gap = GapAt(s.addr)
  /\ s.alg = "first_fit" => UpTo(s.size, s.iter) = {}
  /\ s.alg = "next_fit" =>
       /\ last_addr \in DOMAIN tail /\ last_addr <= s.iter
       /\ \A g \in UpTo(s.size, s.iter) : g <= last_addr

(* next_fit's second loop: nothing fits behind last_addr, or below iter.   *)
WrapOK(s) ==
  /\ s.alg = "next_fit" /\ s.iter \in DOMAIN tail /\ last_addr \in DOMAIN tail
  /\ UpTo(s.size, s.iter) = {}
  /\ \A g \in FittingGaps(s.size) : g <= last_addr

Scans == [alg : Strategies, size : Sizes, pass : {"loop", "wrap", "done"},
          iter : DOMAIN tail \cup {nullptr}, addr : Nat, gap : Nat]

(* The list waits for the search to end, and the search goes on as above.  *)
Searching(s) ==
  /\ Idle /\ start # nullptr /\ Cardinality(Live) < MaxSegs
  /\ s \in Scans
  /\ s.pass = "loop" => LoopOK(s)
  /\ s.pass = "wrap" => WrapOK(s)
  /\ s.pass = "done" => Chosen(s.alg, FittingGaps(s.size), s.addr)

ScanOK == scan # NoScan => \E s : s = scan /\ Searching(s)

(* A step that leaves the list alone only has to leave the search right.   *)
LEMMA SearchMoves ==
  ASSUME UNCHANGED vars, NEW s, scan' = s, Searching(s)
  PROVE  ScanOK'
<1>1. /\ brk' = brk /\ start' = start /\ first_seg' = first_seg /\ end_addr' = end_addr
      /\ head' = head /\ tail' = tail /\ last_addr' = last_addr /\ call' = call
      /\ status' = status
  BY DEF vars, arena
<1>2. \A n : FittingGaps(n)' = FittingGaps(n)
  BY <1>1 DEF FittingGaps, StartGap, Base
<1>3. \A n, t : UpTo(n, t)' = UpTo(n, t)
  BY <1>2 DEF UpTo
<1>4. \A a : GapAt(a)' = GapAt(a)
  BY <1>1 DEF GapAt, StartGap, Base
<1>5. \A alg, a, g : Preferred(alg, a, g)' <=> Preferred(alg, a, g)
  BY <1>1, <1>4 DEF Preferred
<1>6. \A alg, S, a : Chosen(alg, S, a)' <=> Chosen(alg, S, a)
  BY <1>1, <1>5 DEF Chosen
<1>7. LoopOK(s)' <=> LoopOK(s)
  BY <1>1, <1>3, <1>4, <1>6 DEF LoopOK
<1>8. WrapOK(s)' <=> WrapOK(s)
  BY <1>1, <1>2, <1>3 DEF WrapOK
<1>9. Searching(s)'
  BY <1>1, <1>2, <1>6, <1>7, <1>8 DEF Searching, Idle, Live, Scans
<1>10. QED
  BY <1>9 DEF ScanOK


-----------------------------------------------------------------------------
(* The steps of a search.                                                  *)

(* The first tail, where best_fit, worst_fit and first_fit begin and       *)
(* next_fit starts over.                                                   *)
LEMMA FirstTail ==
  ASSUME IInv, first_seg # nullptr
  PROVE  /\ head[first_seg].next_seg_tail \in DOMAIN tail
         /\ \A u \in DOMAIN tail : head[first_seg].next_seg_tail <= u
<1>1. Ordered /\ first_seg \in Live /\ \A h \in Live : first_seg <= h
  BY IInvFacts DEF IInv, FirstIsLowest
<1>2. \A h \in Live : /\ h \in Nat /\ TailOf(h) \in Nat /\ TailOf(h) \in DOMAIN tail
                      /\ h < first_seg <=> TailOf(h) < TailOf(first_seg)
  BY <1>1, FieldTypes, TailOrder DEF Ordered
<1>3. \A h \in Live : TailOf(first_seg) <= TailOf(h)
  BY <1>1, <1>2
<1>4. \A u \in DOMAIN tail : \E h \in Live : u = TailOf(h)
  BY <1>1, Neighbours DEF Ordered
<1>5. QED
  BY <1>1, <1>2, <1>3, <1>4 DEF TailOf

(* A strategy is called.                                                   *)
LEMMA StartScanOK ==
  ASSUME IInv, g_alloc_function \in Strategies, NEW size \in Sizes, scan = NoScan,
         StartScan(size)
  PROVE  UNCHANGED vars /\ ScanOK' /\ g_alloc_function' = g_alloc_function
<1> DEFINE alg   == IF g_alloc_function = "next_fit" /\ last_addr = nullptr
                    THEN "first_fit" ELSE g_alloc_function
           takes == StartGap >= TotalSize(size)
           Begun(pass, iter, addr, gap) ==
             [alg |-> alg, size |-> size, pass |-> pass, iter |-> iter, addr |-> addr, gap |-> gap]
<1>1. /\ alg \in Strategies /\ Idle /\ start # nullptr /\ Cardinality(Live) < MaxSegs
      /\ Base \in Nat \ {0} /\ end_addr \in Nat /\ last_addr \in Nat
      /\ g_alloc_function' = g_alloc_function
  BY IInvFacts DEF StartScan, Strategies, IInv, TypeOK
<1>2. CASE alg = "next_fit"
  <2> DEFINE s == Begun("loop", last_addr, nullptr, 0)
  <2>1. last_addr \in DOMAIN tail
    BY <1>2 DEF IInv, LastAddrLive
  <2>2. last_addr < end_addr
    BY <2>1, TailOrder
  <2>3. UNCHANGED vars /\ scan' = s
    BY <1>2, <2>2 DEF StartScan, ASSERT, ListUntouched, vars, arena
  <2>4. s \in Scans
    BY <1>1, <2>1 DEF Scans, nullptr
  <2>5. LoopOK(s)
    BY <1>1, <1>2, <2>1 DEF LoopOK, UpTo
  <2>6. Searching(s)
    BY <1>1, <2>4, <2>5 DEF Searching
  <2>7. QED
    BY <1>1, <2>3, <2>6, SearchMoves
<1>3. CASE alg # "next_fit" /\ (first_seg = nullptr \/ (alg = "first_fit" /\ takes))
  <2> DEFINE addr == IF takes THEN Base ELSE nullptr
             s == Begun("done", nullptr, addr, 0)
  <2>1. UNCHANGED vars /\ scan' = s
    BY <1>3 DEF StartScan, ListUntouched, vars, arena
  <2>2. addr \in Nat
    BY <1>1 DEF nullptr
  <2>3. s \in Scans
    BY <1>1, <2>2 DEF Scans
  <2>4. Chosen(alg, FittingGaps(size), addr)
    <3>1. CASE first_seg = nullptr
      <4>1. DOMAIN tail = {}
        BY <3>1 DEF IInv, TypeOK, FirstIsLowest, ListLinked
      <4>2. FittingGaps(size) = IF takes THEN {Base} ELSE {}
        BY <4>1 DEF FittingGaps
      <4>3. QED
        BY <4>2, <1>1, <1>3 DEF Chosen, Preferred
    <3>2. CASE alg = "first_fit" /\ takes
      <4>1. Base \in FittingGaps(size) /\ \A g \in FittingGaps(size) : Base <= g
        BY <3>2, <1>1, GapPlaces, TailOrder, LayoutAssumption
      <4>2. QED
        BY <4>1, <3>2 DEF Chosen, Preferred
    <3>3. QED
      BY <3>1, <3>2, <1>3
  <2> HIDE DEF addr
  <2>5. Searching(s)
    BY <1>1, <2>3, <2>4 DEF Searching
  <2>6. QED
    BY <1>1, <2>1, <2>5, SearchMoves
<1>4. CASE alg # "next_fit" /\ ~ (first_seg = nullptr \/ (alg = "first_fit" /\ takes))
  <2> DEFINE t == head[first_seg].next_seg_tail
             addr == IF takes THEN Base ELSE nullptr
             gap  == IF takes THEN StartGap ELSE 0
             s == Begun("loop", t, addr, gap)
  <2>1. UNCHANGED vars /\ scan' = s
    BY <1>4 DEF StartScan, ListUntouched, vars, arena
  <2>2. t \in DOMAIN tail /\ UpTo(size, t) = IF takes THEN {Base} ELSE {}
    BY <1>4, FirstTail, SeenAtFirst
  <2>3. addr \in Nat /\ gap \in Nat /\ (addr # nullptr => gap = GapAt(addr))
    BY <1>1, GapTypes, GapPlaces DEF nullptr
  <2> HIDE DEF t
  <2>4. s \in Scans
    BY <1>1, <2>2, <2>3 DEF Scans
  <2>5. Chosen(alg, UpTo(size, t), addr)
    BY <2>2, <1>1, <1>4 DEF Chosen, Preferred
  <2>6. alg = "first_fit" => UpTo(size, t) = {}
    BY <2>2, <1>4
  <2>7. LoopOK(s)
    <3> HIDE DEF addr, gap, alg
    <3>1. QED
      BY <1>4, <2>2, <2>3, <2>5, <2>6 DEF LoopOK
  <2>8. Searching(s)
    BY <1>1, <2>4, <2>7 DEF Searching
  <2>9. QED
    BY <1>1, <2>1, <2>8, SearchMoves
<1>5. QED
  BY <1>2, <1>3, <1>4


(* An iterator that stays in its loop has climbed.                         *)
Climbed == scan.pass \in {"loop", "wrap"} /\ scan'.pass = scan.pass => scan'.iter > scan.iter

(* One iteration of best_fit or worst_fit.                                 *)
LEMMA ScanAllOK ==
  ASSUME IInv, NEW s, s = scan, Searching(s), ScanAll, UNCHANGED vars
  PROVE  ScanOK' /\ Climbed
<1> DEFINE t     == s.iter
           next  == Following(t)
           gap   == tail[t].free_following
           takes == gap >= TotalSize(s.size) /\ (s.addr = nullptr \/ Better(gap))
           addr2 == IF takes THEN t + SEG_TAIL ELSE s.addr
           gap2  == IF takes THEN gap ELSE s.gap
           pass2 == IF LoopGoesOn(next) THEN "loop" ELSE "done"
           s2    == [s EXCEPT !.addr = addr2, !.gap = gap2, !.iter = next, !.pass = pass2]
           seen  == UpTo(s.size, t)
           all   == seen \cup Behind(s.size, t)
<1>1. /\ scan' = s2 /\ s.pass = "loop" /\ s.alg \in {"best_fit", "worst_fit"} /\ s \in Scans
      /\ start # nullptr /\ Idle /\ Cardinality(Live) < MaxSegs
  BY DEF ScanAll, Fits, Searching
<1>2. /\ t \in DOMAIN tail /\ t \in Nat /\ gap \in Nat /\ SEG_TAIL \in Nat \ {0}
      /\ Chosen(s.alg, seen, s.addr) /\ (s.addr # nullptr => s.gap = GapAt(s.addr))
  BY <1>1, TailOrder, LayoutAssumption DEF Searching, LoopOK
<1>3. /\ next \in DOMAIN tail /\ next \in Nat
      /\ LoopGoesOn(next) <=> t < next
  BY <1>2, NextTail, TailOrder
<1>4. /\ t < next => UpTo(s.size, next) = all
      /\ ~ (t < next) => FittingGaps(s.size) = all
      /\ \A g \in seen : g \in Nat /\ g < t + SEG_TAIL
  BY <1>2, SeenNext
<1>5. \A g \in seen : g \in Nat \ {0} /\ GapAt(g) \in Nat
  BY <1>1, GapTypes, GapPlaces DEF UpTo
<1>6. GapAt(t + SEG_TAIL) = gap
  BY <1>2, GapPlaces
<1>7. Better(gap) <=> IF s.alg = "best_fit" THEN gap < s.gap ELSE gap > s.gap
  BY DEF Better
<1>8. s.addr = nullptr <=> seen = {}
  BY <1>2, <1>5 DEF Chosen, nullptr
<1> HIDE DEF next, gap
<1>9. Chosen(s.alg, all, addr2) /\ gap2 \in Nat /\ addr2 \in Nat
      /\ (addr2 # nullptr => gap2 = GapAt(addr2))
  <2>1. CASE ~ (gap >= TotalSize(s.size))
    <3>1. all = seen /\ addr2 = s.addr /\ gap2 = s.gap
      BY <2>1 DEF Behind, gap
    <3>2. QED
      BY <3>1, <1>1, <1>2 DEF Scans
  <2>2. CASE gap >= TotalSize(s.size) /\ s.addr = nullptr
    <3>1. all = {t + SEG_TAIL} /\ addr2 = t + SEG_TAIL /\ gap2 = gap
      BY <2>2, <1>8 DEF Behind, gap
    <3>2. QED
      BY <3>1, <1>1, <1>2, <1>6 DEF Chosen, Preferred
  <2>3. CASE gap >= TotalSize(s.size) /\ s.addr # nullptr
    <3>1. all = seen \cup {t + SEG_TAIL} /\ seen # {} /\ s.addr \in seen
          /\ s.gap = GapAt(s.addr) /\ \A g \in seen : Preferred(s.alg, s.addr, g)
      BY <2>3, <1>2, <1>8 DEF Behind, gap, Chosen
    <3>2. takes <=> IF s.alg = "best_fit" THEN gap < s.gap ELSE gap > s.gap
      BY <2>3, <1>7
    <3>3. CASE takes
      <4>1. addr2 = t + SEG_TAIL /\ gap2 = gap
        BY <3>3
      <4>2. ASSUME NEW g \in seen PROVE Preferred(s.alg, t + SEG_TAIL, g)
        <5>1. /\ s.alg = "best_fit" => gap < s.gap /\ s.gap <= GapAt(g)
              /\ s.alg = "worst_fit" => gap > s.gap /\ s.gap >= GapAt(g)
          BY <3>1, <3>2, <3>3, <1>5, <4>2 DEF Preferred
        <5>2. s.gap \in Nat /\ GapAt(g) \in Nat
          BY <3>1, <1>5, <4>2
        <5>3. gap \in Nat /\ s.alg \in {"best_fit", "worst_fit"} /\ GapAt(t + SEG_TAIL) = gap
          BY <1>1, <1>2, <1>6
        <5>4. /\ s.alg = "best_fit" => gap < GapAt(g)
              /\ s.alg = "worst_fit" => gap > GapAt(g)
          BY <5>1, <5>2, <5>3
        <5>5. QED
          BY <5>3, <5>4 DEF Preferred
      <4>3. Preferred(s.alg, t + SEG_TAIL, t + SEG_TAIL)
        BY <1>1, <1>2, <1>6 DEF Preferred
      <4>4. QED
        BY <4>1, <4>2, <4>3, <3>1, <1>2, <1>6 DEF Chosen
    <3>4. CASE ~ takes
      <4>1. addr2 = s.addr /\ gap2 = s.gap
        BY <3>4
      <4>2. /\ s.alg = "best_fit" => s.gap <= gap
            /\ s.alg = "worst_fit" => s.gap >= gap
        BY <3>1, <3>2, <3>4, <1>2, <1>5
      <4>3. s.addr < t + SEG_TAIL /\ s.gap \in Nat /\ s.addr \in Nat
        BY <3>1, <1>4, <1>5
      <4>4. Preferred(s.alg, s.addr, t + SEG_TAIL)
        BY <4>2, <4>3, <3>1, <1>1, <1>2, <1>6 DEF Preferred
      <4>5. QED
        BY <4>1, <4>3, <4>4, <3>1 DEF Chosen
    <3>5. QED
      BY <3>3, <3>4
  <2>4. QED
    BY <2>1, <2>2, <2>3
<1> HIDE DEF addr2, gap2
<1>10. /\ s2 \in Scans /\ s2.alg = s.alg /\ s2.size = s.size /\ s2.iter = next
       /\ s2.addr = addr2 /\ s2.gap = gap2 /\ s2.pass = pass2
  BY <1>1, <1>3, <1>9 DEF Scans
<1> HIDE DEF s2
<1>11. Searching(s2)
  <2>1. CASE t < next
    <3>1. LoopOK(s2)
      BY <2>1, <1>1, <1>3, <1>4, <1>9, <1>10 DEF LoopOK
    <3>2. QED
      BY <2>1, <3>1, <1>1, <1>3, <1>10 DEF Searching
  <2>2. CASE ~ (t < next)
    BY <2>2, <1>1, <1>3, <1>4, <1>9, <1>10 DEF Searching
  <2>3. QED
    BY <2>1, <2>2
<1>12. Climbed
  BY <1>1, <1>2, <1>3, <1>10 DEF Climbed
<1>13. QED
  BY <1>1, <1>11, <1>12, SearchMoves


(* What the steps of first_fit and next_fit start from.                    *)
LEMMA ScanContext ==
  ASSUME IInv, NEW s, Searching(s), s.pass \in {"loop", "wrap"}
  PROVE  /\ s \in Scans /\ start # nullptr /\ Idle /\ Cardinality(Live) < MaxSegs
         /\ s.iter \in DOMAIN tail /\ s.iter \in Nat /\ SEG_TAIL \in Nat \ {0}
         /\ Following(s.iter) \in DOMAIN tail /\ Following(s.iter) \in Nat
         /\ LoopGoesOn(Following(s.iter)) <=> s.iter < Following(s.iter)
         /\ last_addr \in Nat /\ Base \in Nat \ {0} /\ first_seg # nullptr
         /\ FittingGaps(s.size) \subseteq Nat \ {0}
         /\ \A g \in FittingGaps(s.size) : Base <= g
<1>1. /\ s \in Scans /\ start # nullptr /\ Idle /\ Cardinality(Live) < MaxSegs
      /\ s.iter \in DOMAIN tail /\ SEG_TAIL \in Nat \ {0}
      /\ Base \in Nat \ {0} /\ last_addr \in Nat
  BY IInvFacts, LayoutAssumption DEF Searching, LoopOK, WrapOK, IInv, TypeOK
<1>2. /\ s.iter \in Nat /\ Following(s.iter) \in DOMAIN tail /\ Following(s.iter) \in Nat
      /\ LoopGoesOn(Following(s.iter)) <=> s.iter < Following(s.iter)
  BY <1>1, NextTail, TailOrder
<1>3. first_seg # nullptr
  <2>1. Live # {}
    BY <1>1 DEF IInv, ListLinked
  <2>2. QED
    BY <2>1 DEF IInv, FirstIsLowest, TypeOK
<1>4. FittingGaps(s.size) \subseteq Nat \ {0} /\ \A g \in FittingGaps(s.size) : Base <= g
  BY <1>1, GapPlaces, TailOrder
<1>5. QED
  BY <1>1, <1>2, <1>3, <1>4

(* The gap behind t fits: it is the first behind all that were seen.       *)
LEMMA FitFound ==
  ASSUME IInv, NEW s, Searching(s), s.pass \in {"loop", "wrap"},
         s.alg \in {"first_fit", "next_fit"},
         tail[s.iter].free_following >= TotalSize(s.size),
         s.pass = "wrap" => s.iter < last_addr,
         NEW s2, s2 = [s EXCEPT !.addr = s.iter + SEG_TAIL, !.pass = "done"]
  PROVE  Searching(s2)
<1> DEFINE t == s.iter
           addr == t + SEG_TAIL
<1>1. /\ s \in Scans /\ start # nullptr /\ Idle /\ Cardinality(Live) < MaxSegs
      /\ t \in DOMAIN tail /\ t \in Nat /\ SEG_TAIL \in Nat \ {0} /\ last_addr \in Nat
      /\ FittingGaps(s.size) \subseteq Nat
  BY ScanContext
<1>2. addr \in FittingGaps(s.size) /\ \A g \in FittingGaps(s.size) \ UpTo(s.size, t) : g >= addr
  BY <1>1, SeenNext, GapPlaces
<1>3. ASSUME NEW g \in FittingGaps(s.size) PROVE Preferred(s.alg, addr, g)
  <2>1. CASE s.pass = "loop" /\ s.alg = "first_fit"
    <3>1. UpTo(s.size, t) = {}
      BY <2>1 DEF Searching, LoopOK
    <3>2. QED
      BY <3>1, <2>1, <1>2, <1>3 DEF Preferred
  <2>2. CASE s.pass = "loop" /\ s.alg = "next_fit"
    <3>1. last_addr <= t /\ \A k \in UpTo(s.size, t) : k <= last_addr
      BY <2>2 DEF Searching, LoopOK
    <3>2. addr > last_addr
      BY <3>1, <1>1
    <3>3. g > last_addr => addr <= g
      BY <3>1, <1>1, <1>2, <1>3
    <3>4. QED
      BY <3>2, <3>3, <2>2 DEF Preferred
  <2>3. CASE s.pass = "wrap"
    <3>1. s.alg = "next_fit" /\ UpTo(s.size, t) = {}
          /\ \A k \in FittingGaps(s.size) : k <= last_addr
      BY <2>3 DEF Searching, WrapOK
    <3>2. addr <= last_addr /\ addr <= g /\ g <= last_addr
      BY <3>1, <1>2, <1>3
    <3>3. QED
      BY <3>1, <3>2, <1>1 DEF Preferred
  <2>4. QED
    BY <2>1, <2>2, <2>3
<1>4. /\ s2 \in Scans /\ s2.alg = s.alg /\ s2.size = s.size /\ s2.addr = addr
      /\ s2.pass = "done"
  <2>1. addr \in Nat
    BY <1>1
  <2> HIDE DEF addr, t
  <2>2. s2 = [s EXCEPT !.addr = addr, !.pass = "done"]
    BY DEF addr, t
  <2>3. QED
    BY <2>1, <2>2, <1>1 DEF Scans
<1>5. Chosen(s.alg, FittingGaps(s.size), addr)
  BY <1>2, <1>3 DEF Chosen
<1>6. QED
  BY <1>1, <1>4, <1>5 DEF Searching

(* One iteration of first_fit, or of the loop next_fit begins with.        *)
LEMMA ScanUpOK ==
  ASSUME IInv, NEW s, s = scan, Searching(s), ScanUp, UNCHANGED vars
  PROVE  ScanOK' /\ Climbed
<1> DEFINE t     == s.iter
           next  == Following(t)
           fits  == tail[t].free_following >= TotalSize(s.size)
<1>1. /\ s.pass = "loop" /\ s.alg \in {"first_fit", "next_fit"}
      /\ LoopOK(s)
  BY DEF ScanUp, Searching
<1>2. /\ s \in Scans /\ start # nullptr /\ Idle /\ Cardinality(Live) < MaxSegs
      /\ t \in DOMAIN tail /\ t \in Nat /\ SEG_TAIL \in Nat \ {0}
      /\ next \in DOMAIN tail /\ next \in Nat
      /\ LoopGoesOn(next) <=> t < next
      /\ last_addr \in Nat /\ Base \in Nat \ {0} /\ first_seg # nullptr
      /\ FittingGaps(s.size) \subseteq Nat \ {0}
      /\ \A g \in FittingGaps(s.size) : Base <= g
  BY <1>1, ScanContext
<1>3. ~ fits => Behind(s.size, t) = {}
  BY DEF Behind
<1>4. /\ ~ fits /\ t < next => UpTo(s.size, next) = UpTo(s.size, t)
      /\ ~ fits /\ ~ (t < next) => FittingGaps(s.size) = UpTo(s.size, t)
  <2>1. /\ t < next => UpTo(s.size, next) = UpTo(s.size, t) \cup Behind(s.size, t)
        /\ ~ (t < next) => FittingGaps(s.size) = UpTo(s.size, t) \cup Behind(s.size, t)
    BY <1>2, SeenNext
  <2>2. QED
    BY <2>1, <1>3
<1> HIDE DEF next
<1>5. CASE fits /\ scan' = [s EXCEPT !.addr = t + SEG_TAIL, !.pass = "done"]
  <2>1. PICK s2 : s2 = [s EXCEPT !.addr = t + SEG_TAIL, !.pass = "done"]
    OBVIOUS
  <2>2. Searching(s2) /\ scan' = s2
    BY <2>1, <1>1, <1>5, FitFound
  <2>3. s2.pass = "done"
    BY <2>1, <1>2 DEF Scans
  <2>4. QED
    BY <2>2, <2>3, <1>1, SearchMoves DEF Climbed
<1>6. CASE ~ fits /\ t < next /\ scan' = [s EXCEPT !.iter = next]
  <2>1. PICK s2 : s2 = [s EXCEPT !.iter = next]
    OBVIOUS
  <2>2. /\ s2 \in Scans /\ s2.alg = s.alg /\ s2.size = s.size /\ s2.iter = next
        /\ s2.pass = "loop"
    BY <2>1, <1>1, <1>2 DEF Scans
  <2>3. LoopOK(s2)
    BY <2>2, <1>1, <1>2, <1>4, <1>6 DEF LoopOK
  <2>4. Searching(s2)
    BY <2>2, <2>3, <1>2 DEF Searching
  <2>5. QED
    BY <2>1, <2>2, <2>4, <1>6, SearchMoves DEF Climbed
<1>7. CASE ~ fits /\ ~ (t < next) /\ s.alg = "first_fit"
           /\ scan' = [s EXCEPT !.addr = nullptr, !.pass = "done"]
  <2>1. PICK s2 : s2 = [s EXCEPT !.addr = nullptr, !.pass = "done"]
    OBVIOUS
  <2>2. /\ s2 \in Scans /\ s2.alg = s.alg /\ s2.size = s.size /\ s2.addr = nullptr
        /\ s2.pass = "done"
    BY <2>1, <1>2 DEF Scans, nullptr
  <2>3. FittingGaps(s.size) = {}
    BY <1>1, <1>4, <1>7 DEF LoopOK
  <2>4. Searching(s2)
    BY <2>2, <2>3, <1>2 DEF Searching, Chosen
  <2>5. QED
    BY <2>1, <2>2, <2>4, <1>1, <1>7, SearchMoves DEF Climbed
<1>8. CASE ~ fits /\ ~ (t < next) /\ s.alg = "next_fit" /\ StartGap >= TotalSize(s.size)
           /\ scan' = [s EXCEPT !.addr = Base, !.pass = "done"]
  <2>1. PICK s2 : s2 = [s EXCEPT !.addr = Base, !.pass = "done"]
    OBVIOUS
  <2>2. /\ s2 \in Scans /\ s2.alg = s.alg /\ s2.size = s.size /\ s2.addr = Base
        /\ s2.pass = "done"
    BY <2>1, <1>2 DEF Scans
  <2>3. Base \in FittingGaps(s.size) /\ \A g \in FittingGaps(s.size) : g <= last_addr
    BY <1>1, <1>4, <1>8, GapPlaces DEF LoopOK
  <2>4. ~ (Base > last_addr)
    BY <2>3, <1>2
  <2>5. Chosen(s.alg, FittingGaps(s.size), Base)
    BY <2>3, <2>4, <1>2, <1>8 DEF Chosen, Preferred
  <2>6. Searching(s2)
    BY <2>2, <2>5, <1>2 DEF Searching
  <2>7. QED
    BY <2>1, <2>2, <2>6, <1>1, <1>8, SearchMoves DEF Climbed
<1>9. CASE ~ fits /\ ~ (t < next) /\ s.alg = "next_fit" /\ ~ (StartGap >= TotalSize(s.size))
           /\ scan' = [s EXCEPT !.pass = "wrap", !.iter = head[first_seg].next_seg_tail]
  <2>1. PICK u \in DOMAIN tail : u = head[first_seg].next_seg_tail /\ \A v \in DOMAIN tail : u <= v
    BY <1>2, FirstTail
  <2>2. PICK s2 : s2 = [s EXCEPT !.pass = "wrap", !.iter = u]
    OBVIOUS
  <2>3. /\ s2 \in Scans /\ s2.alg = s.alg /\ s2.size = s.size /\ s2.iter = u
        /\ s2.pass = "wrap"
    BY <2>1, <2>2, <1>2 DEF Scans
  <2>4. UpTo(s.size, u) = {}
    BY <2>1, <1>9, SeenAtFirst
  <2>5. last_addr \in DOMAIN tail /\ \A g \in FittingGaps(s.size) : g <= last_addr
    BY <1>1, <1>4, <1>9 DEF LoopOK
  <2>6. WrapOK(s2)
    BY <2>1, <2>3, <2>4, <2>5, <1>9 DEF WrapOK
  <2>7. Searching(s2)
    BY <2>3, <2>6, <1>2 DEF Searching
  <2>8. QED
    BY <2>1, <2>2, <2>3, <2>7, <1>1, <1>9, SearchMoves DEF Climbed
<1>10. \/ fits /\ scan' = [s EXCEPT !.addr = t + SEG_TAIL, !.pass = "done"]
       \/ ~ fits /\ t < next /\ scan' = [s EXCEPT !.iter = next]
       \/ ~ fits /\ ~ (t < next) /\ s.alg = "first_fit"
          /\ scan' = [s EXCEPT !.addr = nullptr, !.pass = "done"]
       \/ ~ fits /\ ~ (t < next) /\ s.alg = "next_fit" /\ StartGap >= TotalSize(s.size)
          /\ scan' = [s EXCEPT !.addr = Base, !.pass = "done"]
       \/ ~ fits /\ ~ (t < next) /\ s.alg = "next_fit" /\ ~ (StartGap >= TotalSize(s.size))
          /\ scan' = [s EXCEPT !.pass = "wrap", !.iter = head[first_seg].next_seg_tail]
  BY <1>2 DEF ScanUp, Fits, Return, next
<1>11. QED
  BY <1>5, <1>6, <1>7, <1>8, <1>9, <1>10

(* One iteration of next_fit's second loop.                                *)
LEMMA ScanWrapOK ==
  ASSUME IInv, NEW s, s = scan, Searching(s), ScanWrap, UNCHANGED vars
  PROVE  ScanOK' /\ Climbed
<1> DEFINE t     == s.iter
           next  == Following(t)
           fits  == tail[t].free_following >= TotalSize(s.size)
<1>1. s.pass = "wrap" /\ WrapOK(s) /\ s.alg = "next_fit"
  BY DEF ScanWrap, Searching, WrapOK
<1>2. /\ s \in Scans /\ start # nullptr /\ Idle /\ Cardinality(Live) < MaxSegs
      /\ t \in DOMAIN tail /\ t \in Nat
      /\ next \in DOMAIN tail /\ next \in Nat
      /\ LoopGoesOn(next) <=> t < next
      /\ last_addr \in Nat
      /\ FittingGaps(s.size) \subseteq Nat \ {0}
  BY <1>1, ScanContext
<1>3. CASE t < last_addr /\ fits /\ scan' = [s EXCEPT !.addr = t + SEG_TAIL, !.pass = "done"]
  <2>1. PICK s2 : s2 = [s EXCEPT !.addr = t + SEG_TAIL, !.pass = "done"]
    OBVIOUS
  <2>2. Searching(s2) /\ scan' = s2
    BY <2>1, <1>1, <1>3, FitFound
  <2>3. s2.pass = "done"
    BY <2>1, <1>2 DEF Scans
  <2>4. QED
    BY <2>2, <2>3, <1>1, SearchMoves DEF Climbed
<1>4. CASE t < last_addr /\ ~ fits /\ scan' = [s EXCEPT !.iter = next]
  <2>1. t < next
    <3>1. last_addr \in DOMAIN tail
      BY <1>1 DEF WrapOK
    <3>2. QED
      BY <3>1, <1>2, <1>4, NextTail
  <2>2. UpTo(s.size, next) = {}
    BY <2>1, <1>1, <1>2, <1>4, SeenNext DEF WrapOK, Behind
  <2>3. PICK s2 : s2 = [s EXCEPT !.iter = next]
    OBVIOUS
  <2>4. /\ s2 \in Scans /\ s2.alg = s.alg /\ s2.size = s.size /\ s2.iter = next
        /\ s2.pass = "wrap"
    BY <2>3, <1>1, <1>2 DEF Scans
  <2>5. WrapOK(s2)
    BY <2>2, <2>4, <1>1, <1>2 DEF WrapOK
  <2>6. Searching(s2)
    BY <2>4, <2>5, <1>2 DEF Searching
  <2>7. QED
    BY <2>1, <2>3, <2>4, <2>6, <1>4, SearchMoves DEF Climbed
<1>5. CASE ~ (t < last_addr) /\ scan' = [s EXCEPT !.addr = nullptr, !.pass = "done"]
  <2>1. PICK s2 : s2 = [s EXCEPT !.addr = nullptr, !.pass = "done"]
    OBVIOUS
  <2>2. /\ s2 \in Scans /\ s2.alg = s.alg /\ s2.size = s.size /\ s2.addr = nullptr
        /\ s2.pass = "done"
    BY <2>1, <1>2 DEF Scans, nullptr
  <2>3. FittingGaps(s.size) = {}
    <3>1. SUFFICES ASSUME NEW g \in FittingGaps(s.size) PROVE FALSE
      OBVIOUS
    <3>2. g <= last_addr /\ ~ (g <= t)
      BY <3>1, <1>1 DEF WrapOK, UpTo
    <3>3. QED
      BY <3>2, <1>2, <1>5
  <2>4. Searching(s2)
    BY <2>2, <2>3, <1>2 DEF Searching, Chosen
  <2>5. QED
    BY <2>1, <2>2, <2>4, <1>1, <1>5, SearchMoves DEF Climbed
<1>6. QED
  BY <1>2, <1>3, <1>4, <1>5 DEF ScanWrap, Fits, Return


-----------------------------------------------------------------------------
(* The allocator with its strategies.                                      *)

SIInv == IInv /\ g_alloc_function \in Strategies /\ ScanOK

(* The search returns to find_free_seg: it takes a gap that fits, or calls *)
(* expand_list because none does.                                          *)
LEMMA EndScanFinds ==
  ASSUME SIInv, EndScan
  PROVE  Next
<1>1. PICK s : s = scan /\ Searching(s)
  BY DEF SIInv, ScanOK, EndScan, NoScan
<1>2. /\ s.size \in Sizes /\ Idle /\ start # nullptr /\ Cardinality(Live) < MaxSegs
      /\ Chosen(s.alg, FittingGaps(s.size), s.addr)
  BY <1>1 DEF Searching, Scans, EndScan
<1>3. CASE s.addr = nullptr
  <2>1. FittingGaps(s.size) = {}
    BY <1>2, <1>3, GapPlaces DEF Chosen, SIInv, nullptr
  <2>2. expand_list(s.size)
    BY <1>1, <1>3 DEF EndScan
  <2>3. QED
    BY <1>2, <2>1, <2>2 DEF Next, FindFreeSeg, ExpandArena
<1>4. CASE s.addr # nullptr
  <2>1. s.addr \in FittingGaps(s.size)
    BY <1>2, <1>4 DEF Chosen
  <2>2. Found(s.addr, s.size) /\ UNCHANGED <<arena, head, tail, last_addr, status>>
    BY <1>1, <1>4 DEF EndScan
  <2>3. FindGap(s.size)
    BY <1>2, <2>1, <2>2 DEF FindGap
  <2>4. QED
    BY <1>2, <2>3 DEF Next, FindFreeSeg
<1>5. QED
  BY <1>3, <1>4

(* A step of the allocator is a step of the list, or leaves it alone, and  *)
(* keeps the search right.                                                 *)
LEMMA StratsStep ==
  ASSUME SIInv, [SNext]_svars
  PROVE  [Next]_vars /\ g_alloc_function' \in Strategies /\ ScanOK' /\ [Climbed]_svars
<1>1. IInv /\ g_alloc_function \in Strategies /\ ScanOK
  BY DEF SIInv
<1>2. CASE ScanStep
  <2>1. UNCHANGED vars /\ g_alloc_function' = g_alloc_function
    BY <1>2 DEF ScanStep, ListUntouched, vars, arena
  <2>2. PICK s : s = scan /\ Searching(s)
    BY <1>1, <1>2 DEF ScanOK, ScanStep, ScanAll, ScanUp, ScanWrap, NoScan
  <2>3. ScanOK' /\ Climbed
    BY <1>1, <1>2, <2>1, <2>2, ScanAllOK, ScanUpOK, ScanWrapOK DEF ScanStep
  <2>4. QED
    BY <1>1, <2>1, <2>3
<1>3. CASE EndScan
  <2>1. Next
    BY <1>3, EndScanFinds
  <2>2. scan' = NoScan /\ g_alloc_function' = g_alloc_function /\ scan.pass = "done"
    BY <1>3 DEF EndScan
  <2>3. QED
    BY <1>1, <2>1, <2>2 DEF ScanOK, Climbed
<1>4. ASSUME scan = NoScan, NEW size \in Sizes, StartScan(size)
      PROVE  [Next]_vars /\ g_alloc_function' \in Strategies /\ ScanOK' /\ Climbed
  BY <1>1, <1>4, StartScanOK DEF Climbed, NoScan
<1>5. ASSUME scan = NoScan, NEW size \in Sizes, FirstCall(size)
      PROVE  [Next]_vars /\ g_alloc_function' \in Strategies /\ ScanOK' /\ Climbed
  <2>1. Next
    BY <1>5 DEF FirstCall, Next, FindFreeSeg
  <2>2. scan' = NoScan /\ g_alloc_function' = g_alloc_function
    BY <1>5 DEF FirstCall, Unscanned
  <2>3. QED
    BY <1>1, <1>5, <2>1, <2>2 DEF ScanOK, Climbed, NoScan
<1>6. ASSUME scan = NoScan, NEW strat \in Strategies, set_alloc_function(strat)
      PROVE  [Next]_vars /\ g_alloc_function' \in Strategies /\ ScanOK' /\ Climbed
  <2>1. UNCHANGED vars /\ scan' = NoScan /\ g_alloc_function' = strat
    BY <1>6 DEF set_alloc_function, ListUntouched, vars, arena
  <2>2. QED
    BY <1>6, <2>1 DEF ScanOK, Climbed, NoScan
<1>7. CASE scan = NoScan /\ OtherCalls
  <2>1. Next
    BY <1>7 DEF OtherCalls, Next
  <2>2. scan' = NoScan /\ g_alloc_function' = g_alloc_function
    BY <1>7 DEF OtherCalls, Unscanned
  <2>3. QED
    BY <1>1, <1>7, <2>1, <2>2 DEF ScanOK, Climbed, NoScan
<1>8. CASE UNCHANGED svars
  <2>1. UNCHANGED vars /\ scan' = scan /\ g_alloc_function' = g_alloc_function
    BY <1>8 DEF svars, vars
  <2>2. CASE scan = NoScan
    BY <1>1, <2>1, <2>2 DEF ScanOK, Climbed, NoScan
  <2>3. CASE scan # NoScan
    <3>1. PICK s : s = scan /\ Searching(s)
      BY <1>1, <2>3 DEF ScanOK
    <3>2. ScanOK'
      BY <2>1, <3>1, SearchMoves
    <3>3. QED
      BY <1>1, <1>8, <2>1, <3>2
  <2>4. QED
    BY <2>2, <2>3
<1>9. QED
  BY <1>2, <1>3, <1>4, <1>5, <1>6, <1>7, <1>8 DEF SNext


(* The invariant of the list and of the search, for every strategy.        *)
THEOREM SInvariance == SSpec => []SIInv
<1>1. SInit => SIInv
  <2> SUFFICES ASSUME SInit PROVE SIInv
    OBVIOUS
  <2>1. IInv
    BY InitInv DEF SInit
  <2>2. QED
    BY <2>1 DEF SInit, SIInv, ScanOK, Strategies
<1>2. SIInv /\ [SNext]_svars => SIInv'
  <2> SUFFICES ASSUME SIInv, [SNext]_svars PROVE SIInv'
    OBVIOUS
  <2>1. [Next]_vars /\ g_alloc_function' \in Strategies /\ ScanOK'
    BY StratsStep
  <2>2. IInv'
    BY <2>1, NextInv DEF SIInv
  <2>3. QED
    BY <2>1, <2>2 DEF SIInv
<1>3. QED
  BY <1>1, <1>2, PTL DEF SSpec

(* The variables of a search stay within their types; its iterator is a    *)
(* tail of the list.                                                       *)
THEOREM STypesCorrect == SSpec => []STypeOK
<1>1. SIInv => STypeOK
  <2> SUFFICES ASSUME SIInv PROVE STypeOK
    OBVIOUS
  <2>1. TypeOK /\ g_alloc_function \in Strategies
    BY DEF SIInv, IInv
  <2>2. CASE scan = NoScan
    BY <2>1, <2>2 DEF STypeOK, NoScan, nullptr
  <2>3. CASE scan # NoScan
    <3>1. scan \in Scans
      BY <2>3 DEF SIInv, ScanOK, Searching
    <3>2. QED
      BY <2>1, <3>1 DEF STypeOK, Scans
  <2>4. QED
    BY <2>2, <2>3
<1>2. QED
  BY <1>1, SInvariance, PTL

(* best_fit, worst_fit, first_fit and next_fit return exactly the gap they *)
(* are named for, and nullptr only when no gap fits.                       *)
THEOREM SearchIsExact == SSpec => []ReturnsWanted
<1>1. SIInv => ReturnsWanted
  <2> SUFFICES ASSUME SIInv, scan.pass = "done" PROVE scan.addr = Wanted
    BY DEF ReturnsWanted
  <2>1. Searching(scan)
    BY DEF SIInv, ScanOK, NoScan
  <2>2. /\ IInv /\ start # nullptr /\ scan.alg \in Strategies
        /\ Chosen(scan.alg, FittingGaps(scan.size), scan.addr)
    BY <2>1 DEF SIInv, Searching, Scans
  <2>3. QED
    BY <2>2, ChosenIsWanted
<1>2. QED
  BY <1>1, SInvariance, PTL

(* No search looks at a tail twice in the same loop.                       *)
THEOREM IteratorsClimb == SSpec => IteratorClimbs
<1>1. SIInv /\ [SNext]_svars => [scan.pass \in {"loop", "wrap"} /\ scan'.pass = scan.pass
                                   => scan'.iter > scan.iter]_svars
  BY StratsStep DEF Climbed
<1>2. QED
  BY <1>1, SInvariance, PTL DEF SSpec, IteratorClimbs

(* Whatever the strategy, the callers of find_free_seg see the allocator   *)
(* of SegList: a search is one step that finds a gap that fits, or else    *)
(* the growth of the arena.                                                *)
THEOREM StrategiesImplementList == SSpec => ImplementsSegList
<1>1. SInit => Init
  BY DEF SInit
<1>2. SIInv /\ [SNext]_svars => [Next]_vars
  BY StratsStep
<1>3. QED
  BY <1>1, <1>2, SInvariance, PTL DEF SSpec, Spec, ImplementsSegList

=============================================================================
