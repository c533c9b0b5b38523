----------------------------- MODULE HeapProofs -----------------------------
(***************************************************************************)
(* The segment list implements the heap its clients see, and its arena     *)
(* grows and contracts as documented, for every layout and every number of *)
(* segments.  The inductive invariant of SegListProofs does the work: the  *)
(* blocks are disjoint after every step because the segments are, and each *)
(* step changes the size recorded in one header only.                      *)
(***************************************************************************)
EXTENDS MCSegList, SegListProofs

-----------------------------------------------------------------------------
(* Blocks and segments.                                                    *)

(* The block of each segment starts behind its header.                     *)
LEMMA BlockOf ==
  ASSUME Live \subseteq Nat
  PROVE  /\ \A h \in Live : h + SEG_HEAD \in DOMAIN Blocks
                            /\ Blocks[h + SEG_HEAD] = SizeOf(h)
         /\ \A p \in DOMAIN Blocks : p - SEG_HEAD \in Live /\ p = (p - SEG_HEAD) + SEG_HEAD
                                     /\ p \in Nat
<1>1. SEG_HEAD \in Nat
  BY LayoutAssumption
<1>2. \A h \in Live : (h + SEG_HEAD) - SEG_HEAD = h /\ h + SEG_HEAD \in Nat
  BY <1>1
<1>3. QED
  BY <1>2 DEF Blocks, SizeOf

(* Segments that do not meet have user bytes that do not meet.             *)
LEMMA UserBytesApart ==
  ASSUME NEW h \in Nat, NEW k \in Nat, NEW m \in Nat, h + TotalSize(m) <= k
  PROVE  (h + SEG_HEAD) + m <= k + SEG_HEAD
<1>1. /\ TotalSize(m) = SEG_HEAD + round_up(m, ALIGNMENT) + SEG_TAIL
      /\ round_up(m, ALIGNMENT) \in Nat /\ round_up(m, ALIGNMENT) >= m
  BY TotalSizeFacts, RoundUp
<1>2. SEG_HEAD \in Nat /\ SEG_TAIL \in Nat
  BY LayoutAssumption
<1>3. QED
  BY <1>1, <1>2

(* After a step that puts h in the list with n bytes, or gives it n bytes, *)
(* h's block meets none of the others.                                     *)
LEMMA ApartFromOthers ==
  ASSUME Live \subseteq Nat, \A k \in Live : SizeOf(k) \in Nat,
         NEW h \in Live', NEW n \in Nat, SizeOf(h)' = n,
         Live' \subseteq Nat, SegmentsDisjoint',
         NEW k \in Live, k # h, k \in Live', SizeOf(k)' = SizeOf(k)
  PROVE  H!Apart(h + SEG_HEAD, n, k + SEG_HEAD)
<1>1. /\ h \in Nat /\ k \in Nat /\ SizeOf(k) \in Nat
      /\ k > h => h + TotalSize(n) <= k
      /\ h > k => k + TotalSize(SizeOf(k)) <= h
  BY DEF SegmentsDisjoint, SizeOf
<1>2. Blocks[k + SEG_HEAD] = SizeOf(k)
  BY BlockOf
<1>3. (h + SEG_HEAD) + n <= k + SEG_HEAD \/ (k + SEG_HEAD) + SizeOf(k) <= h + SEG_HEAD
  BY <1>1, UserBytesApart
<1>4. QED
  BY <1>2, <1>3 DEF H!Apart

-----------------------------------------------------------------------------
(* What the edits do to the sizes, and so to the blocks.                   *)

(* Insert adds the new header and changes no size.                         *)
LEMMA InsertSizes ==
  ASSUME TypeOK, NEW pred, NEW before, NEW after, Insert(pred, before, after),
         NEW a, a = call.new_a, a \notin Live
  PROVE  /\ Live' = Live \cup {a} /\ SizeOf(a)' = call.size
         /\ \A k \in Live : SizeOf(k)' = SizeOf(k)
<1>1. head \in [Live -> SegHead]
  BY DEF TypeOK
<1> DEFINE next == tail[pred].next_seg_head
           linked == [head EXCEPT ![next].prev_seg_tail = NewTail]
<1>2. DOMAIN linked = Live /\ \A k \in Live : linked[k].seg_size = head[k].seg_size
  BY <1>1 DEF Live, SegHead
<1>3. head' = Put(linked, call.new_a, NewHeader(pred))
  BY DEF Insert
<1> HIDE DEF linked
<1>4. /\ DOMAIN head' = Live \cup {a}
      /\ \A k \in Live : head'[k] = linked[k]
      /\ head'[a] = NewHeader(pred)
  BY <1>2, <1>3 DEF Put
<1>5. head'[a].seg_size = call.size
  BY <1>4 DEF NewHeader
<1>6. QED
  BY <1>2, <1>4, <1>5 DEF Live, SizeOf

(* Unlink takes one header away and changes no size.                       *)
LEMMA UnlinkSizes ==
  ASSUME TypeOK, NEW h, NEW gap, Unlink(h, gap)
  PROVE  Live' = Live \ {h} /\ \A k \in Live \ {h} : SizeOf(k)' = SizeOf(k)
<1>1. head \in [Live -> SegHead]
  BY DEF TypeOK
<1> DEFINE pred == head[h].prev_seg_tail
           next == tail[head[h].next_seg_tail].next_seg_head
           linked == [head EXCEPT ![next].prev_seg_tail = pred]
<1>2. DOMAIN linked = Live /\ \A k \in Live : linked[k].seg_size = head[k].seg_size
  BY <1>1 DEF Live, SegHead
<1>3. head' = Drop(linked, h)
  BY DEF Unlink
<1> HIDE DEF linked
<1>4. QED
  BY <1>2, <1>3 DEF Drop, Live, SizeOf

(* MoveTail changes the size of its segment only.                          *)
LEMMA MoveTailSizes ==
  ASSUME TypeOK, NEW h \in Live, NEW n, MoveTail(h, n)
  PROVE  /\ Live' = Live /\ SizeOf(h)' = n
         /\ \A k \in Live \ {h} : SizeOf(k)' = SizeOf(k)
<1>1. head \in [Live -> SegHead]
  BY DEF TypeOK
<1> DEFINE next == tail[head[h].next_seg_tail].next_seg_head
           new == TailAt(h, n)
<1>2. head' = [head EXCEPT ![h].next_seg_tail = new, ![h].seg_size = n,
                           ![next].prev_seg_tail = new]
  BY DEF MoveTail
<1> HIDE DEF next, new
<1>3. Live' = Live
  BY <1>1, <1>2 DEF Live
<1>4. ASSUME NEW k \in Live PROVE SizeOf(k)' = IF k = h THEN n ELSE SizeOf(k)
  <2>1. head'[k].seg_size = IF k = h THEN n ELSE head[k].seg_size
    BY <1>1, <1>2 DEF Live, SegHead
  <2>2. QED
    BY <2>1 DEF SizeOf
<1>5. QED
  BY <1>3, <1>4

(* The blocks after the step, from the sizes: a segment more.              *)
LEMMA BlocksPut ==
  ASSUME Live \subseteq Nat, NEW a \in Nat \ Live, NEW n,
         Live' = Live \cup {a}, SizeOf(a)' = n, \A k \in Live : SizeOf(k)' = SizeOf(k)
  PROVE  /\ Blocks' = Put(Blocks, a + SEG_HEAD, n) /\ a + SEG_HEAD \notin DOMAIN Blocks
         /\ a + SEG_HEAD \in DOMAIN Blocks'
<1>1. SEG_HEAD \in Nat /\ Live' \subseteq Nat
  BY LayoutAssumption
<1>2. DOMAIN Blocks' = DOMAIN Blocks \cup {a + SEG_HEAD} /\ a + SEG_HEAD \notin DOMAIN Blocks
  BY <1>1, BlockOf DEF Blocks
<1>3. \A p \in DOMAIN Blocks' :
        Blocks'[p] = IF p = a + SEG_HEAD THEN n ELSE Blocks[p]
  BY <1>1, BlockOf DEF Blocks, SizeOf
<1>4. QED
  BY <1>2, <1>3 DEF Put, Blocks

(* A segment less.                                                         *)
LEMMA BlocksDrop ==
  ASSUME Live \subseteq Nat, NEW h \in Live,
         Live' = Live \ {h}, \A k \in Live \ {h} : SizeOf(k)' = SizeOf(k)
  PROVE  Blocks' = Drop(Blocks, h + SEG_HEAD)
<1>1. SEG_HEAD \in Nat /\ Live' \subseteq Nat
  BY LayoutAssumption
<1>2. DOMAIN Blocks' = DOMAIN Blocks \ {h + SEG_HEAD}
  BY <1>1, BlockOf DEF Blocks
<1>3. \A p \in DOMAIN Blocks' : Blocks'[p] = Blocks[p]
  BY <1>1, BlockOf DEF Blocks, SizeOf
<1>4. QED
  BY <1>2, <1>3 DEF Drop, Blocks

(* A segment of another size.                                              *)
LEMMA BlocksResize ==
  ASSUME Live \subseteq Nat, NEW h \in Live, NEW n,
         Live' = Live, SizeOf(h)' = n, \A k \in Live \ {h} : SizeOf(k)' = SizeOf(k)
  PROVE  Blocks' = [Blocks EXCEPT ![h + SEG_HEAD] = n]
<1>1. SEG_HEAD \in Nat
  BY LayoutAssumption
<1>2. DOMAIN Blocks' = DOMAIN Blocks
  BY DEF Blocks
<1>3. \A p \in DOMAIN Blocks' :
        Blocks'[p] = IF p = h + SEG_HEAD THEN n ELSE Blocks[p]
  <2>1. ASSUME NEW p \in DOMAIN Blocks' PROVE Blocks'[p] = SizeOf(p - SEG_HEAD)'
    BY <2>1 DEF Blocks, SizeOf
  <2>2. ASSUME NEW p \in DOMAIN Blocks PROVE Blocks[p] = SizeOf(p - SEG_HEAD)
    BY <2>2 DEF Blocks, SizeOf
  <2>3. (h + SEG_HEAD) - SEG_HEAD = h
    BY <1>1
  <2>4. \A p \in DOMAIN Blocks : p - SEG_HEAD \in Live /\ (p # h + SEG_HEAD => p - SEG_HEAD # h)
    BY BlockOf
  <2>5. QED
    BY <1>2, <2>1, <2>2, <2>3, <2>4
<1>4. QED
  BY <1>2, <1>3 DEF Blocks

-----------------------------------------------------------------------------
(* The steps of the list are steps of the heap.                            *)

(* What find_free_seg passes on to add_entry is a size a client asked for. *)
CallSized == call # NoCall => call.size \in Sizes

(* It stays one until add_entry has used it.                               *)
LEMMA CallSizedInv == Spec => []CallSized
<1>1. Init => CallSized
  BY DEF Init, CallSized
<1>2. CallSized /\ [Next]_vars => CallSized'
  <2> SUFFICES ASSUME CallSized, [Next]_vars PROVE CallSized'
    OBVIOUS
  <2>1. ASSUME NEW size \in Sizes, FindFreeSeg(size) PROVE CallSized'
    BY <2>1 DEF FindFreeSeg, FindGap, CreateList, ExpandArena, expand_list, ExpandEmptyList,
       ExpandAfterLast, ExpandFails, ASSERT, Found, CallSized, NoCall
  <2>2. CASE AddEntry
    BY <2>2 DEF AddEntry, ASSERT, CallSized
  <2>3. ASSUME NEW h \in Live, RemoveSegment(h) PROVE CallSized'
    BY <2>3 DEF RemoveSegment, RemoveInner, RemoveOnly, RemoveFirst, ASSERT, CallSized
  <2>4. ASSUME NEW h \in Live, NEW n \in Sizes, ShrinkSegment(h, n) \/ ExpandSegment(h, n)
        PROVE CallSized'
    BY <2>4 DEF ShrinkSegment, ExpandSegment, CallSized
  <2>5. CASE ClearAllocStorage \/ ResetLastAddr \/ Stopped \/ UNCHANGED vars
    BY <2>5 DEF ClearAllocStorage, ResetLastAddr, Stopped, vars, CallSized
  <2>6. QED
    BY <2>1, <2>2, <2>3, <2>4, <2>5 DEF Next
<1>3. QED
  BY <1>1, <1>2, PTL DEF Spec

(* The place of the new segment is no segment's header.                    *)
LEMMA NewPlaceIsNew ==
  ASSUME IInv, call # NoCall
  PROVE  call.new_a \notin Live /\ call.new_a \in Nat
<1>1. Ordered /\ call.new_a \in Nat /\ call.size \in Nat /\ Base \in Nat
  BY IInvFacts
<1>2. TotalSize(call.size) \in Nat \ {0}
  BY <1>1, NewTailFacts
<1>3. SUFFICES ASSUME call.new_a \in Live PROVE FALSE
  BY <1>1
<1>4. first_seg <= call.new_a /\ first_seg \in Nat
  BY <1>1, <1>3, Geometry, IInvFacts
<1>5. CASE call.new_a + TotalSize(call.size) <= first_seg
  BY <1>1, <1>2, <1>4, <1>5
<1>6. ASSUME NEW q \in Live, call.new_a = EndOf(q), GapOf(q) >= TotalSize(call.size)
      PROVE  FALSE
  <2>1. /\ q \in Nat /\ EndOf(q) \in Nat /\ EndOf(q) > q /\ GapOf(q) \in Nat
    BY <1>1, FieldTypes DEF Ordered
  <2>2. EndOf(q) + GapOf(q) <= call.new_a
    BY <1>1, <1>3, <1>6, <2>1, Geometry
  <2>3. QED
    BY <1>1, <1>2, <1>6, <2>1, <2>2
<1>7. QED
  BY <1>3, <1>5, <1>6, AddPlace

(* It lies in the arena, behind the list header, and has the room.         *)
LEMMA PlaceFacts ==
  ASSUME IInv, call # NoCall
  PROVE  /\ call.new_a \in Nat \ {0} /\ call.new_a \notin Live /\ Aligned(call.new_a)
         /\ Base <= call.new_a /\ call.new_a + TotalSize(call.size) <= end_addr
         /\ start # nullptr
<1>1. /\ Base \in Nat \ {0} /\ end_addr \in Nat /\ call.new_a \in Nat /\ call.size \in Nat
      /\ TotalSize(call.size) \in Nat
  BY IInvFacts, NewTailFacts
<1>2. AddChecks /\ start # nullptr
  BY AddPlace
<1>3. Base <= call.new_a /\ call.new_a + TotalSize(call.size) <= end_addr
  BY <1>1, <1>2 DEF AddChecks
<1>4. QED
  BY <1>1, <1>2, <1>3, NewPlaceIsNew DEF IInv, AllAligned

(* Where the segments lie: behind the list header and below the break, one *)
(* after the other, each long enough for its header, user bytes and tail.  *)
LEMMA Spans ==
  ASSUME IInv
  PROVE  /\ start \in Nat
         /\ \A h \in Live :
              /\ h \in Nat /\ Aligned(h) /\ SizeOf(h) \in Nat
              /\ TailOf(h) = TailAt(h, SizeOf(h)) /\ TailOf(h) \in Nat
              /\ h + SEG_HEAD + SizeOf(h) <= TailOf(h)
              /\ start # nullptr /\ start + LIST_HEAD <= h /\ TailOf(h) + SEG_TAIL <= brk
              /\ \A k \in Live : h < k => TailOf(h) + SEG_TAIL <= k
         /\ DOMAIN tail = {TailOf(h) : h \in Live}
<1>1. Ordered /\ start \in Nat /\ brk \in Nat /\ end_addr \in Nat /\ SegmentsDisjoint
  BY IInvFacts, DisjointSegments
<1>2. ASSUME NEW h \in Live
      PROVE  /\ h \in Nat /\ Aligned(h) /\ SizeOf(h) \in Nat
             /\ TailOf(h) = TailAt(h, SizeOf(h)) /\ TailOf(h) \in Nat
             /\ EndOf(h) = TailOf(h) + SEG_TAIL
             /\ start # nullptr /\ start + LIST_HEAD <= h /\ TailOf(h) + SEG_TAIL <= brk
             /\ \A k \in Live : h < k => TailOf(h) + SEG_TAIL <= k
  <2>1. /\ h \in Nat /\ SizeOf(h) \in Nat /\ TailOf(h) \in Nat
        /\ EndOf(h) = TailOf(h) + SEG_TAIL
    BY <1>1, FieldTypes DEF Ordered
  <2>2. Aligned(h) /\ TailOf(h) = TailAt(h, SizeOf(h)) /\ start # nullptr
    BY IInvFacts DEF IInv, AllAligned, ListLinked, TailOf, SizeOf
  <2>3. /\ Base <= h /\ EndOf(h) <= end_addr /\ \A k \in Live : h < k => EndOf(h) <= k
    <3>1. \A k \in Live : k \in Nat
      BY <1>1, FieldTypes DEF Ordered
    <3>2. QED
      BY <1>1, <2>1, <3>1 DEF SegmentsDisjoint, EndOf
  <2>4. end_addr <= brk
    BY <2>2 DEF IInv, ArenaBacked
  <2>5. start + LIST_HEAD <= h /\ TailOf(h) + SEG_TAIL <= brk
    BY <1>1, <2>1, <2>3, <2>4, LayoutAssumption DEF Base
  <2>6. QED
    BY <2>1, <2>2, <2>3, <2>5
<1>3. ASSUME NEW h \in Live PROVE h + SEG_HEAD + SizeOf(h) <= TailOf(h)
  <2>1. /\ round_up(SizeOf(h), ALIGNMENT) \in Nat /\ round_up(SizeOf(h), ALIGNMENT) >= SizeOf(h)
    BY <1>2, RoundUp
  <2>2. SEG_HEAD \in Nat
    BY LayoutAssumption
  <2>3. QED
    BY <1>2, <2>1, <2>2 DEF TailAt
<1>4. DOMAIN tail = {TailOf(h) : h \in Live}
  <2>1. \A h \in Live : TailOf(h) \in DOMAIN tail
    BY <1>1, FieldTypes DEF Ordered
  <2>2. \A u \in DOMAIN tail : \E h \in Live : TailOf(h) = u
    BY <1>1, Neighbours DEF Ordered
  <2>3. QED
    BY <2>1, <2>2
<1>5. QED
  BY <1>1, <1>2, <1>3, <1>4

(* The kernel never grants more than BreakLimit, so the arena stays below. *)
BreakBounded == start # nullptr => brk <= BreakLimit

(* Every step of the list keeps to that.                                   *)
LEMMA BreakBoundedStep ==
  ASSUME IInv, BreakBounded, [Next]_vars
  PROVE  BreakBounded'
<1>1. /\ brk \in Nat /\ Base \in Nat /\ end_addr \in Nat /\ BreakLimit \in Nat
      /\ start # nullptr => Base <= brk
  BY IInvFacts, ClientAssumption DEF IInv, ArenaBacked, ArenaInPages
<1>2. ASSUME NEW size \in Sizes, FindFreeSeg(size) PROVE BreakBounded'
  BY <1>2 DEF FindFreeSeg, FindGap, CreateList, ExpandArena, expand_list, ExpandEmptyList,
     ExpandAfterLast, ExpandFails, ASSERT, sbrk, arena, BreakBounded
<1>3. CASE AddEntry
  BY <1>3 DEF AddEntry, ASSERT, arena, BreakBounded
<1>4. ASSUME NEW h \in Live, RemoveSegment(h) PROVE BreakBounded'
  <2>1. MergedGap(h) \in Nat
    BY <1>4, RemoveContext
  <2>2. Contraction(MergedGap(h)) \in Nat
    BY <2>1, ContractionFacts
  <2>3. CASE RemoveInner(h)
    BY <1>1, <2>2, <2>3 DEF RemoveInner, ASSERT, arena, BreakBounded
  <2>4. CASE RemoveOnly(h) \/ RemoveFirst(h)
    BY <1>1, <2>4 DEF RemoveOnly, RemoveFirst, ASSERT, arena, BreakBounded
  <2>5. QED
    BY <1>4, <2>3, <2>4 DEF RemoveSegment
<1>5. ASSUME NEW h \in Live, NEW n \in Sizes, ShrinkSegment(h, n) \/ ExpandSegment(h, n)
      PROVE BreakBounded'
  BY <1>5 DEF ShrinkSegment, ExpandSegment, arena, BreakBounded
<1>6. CASE ClearAllocStorage \/ ResetLastAddr \/ Stopped \/ UNCHANGED vars
  BY <1>1, <1>6 DEF ClearAllocStorage, ResetLastAddr, Stopped, vars, arena, BreakBounded
<1>7. QED
  BY <1>2, <1>3, <1>4, <1>5, <1>6 DEF Next

(* The list before and after a step.                                       *)
LEMMA SegmentTypes ==
  ASSUME IInv
  PROVE  /\ Live \subseteq Nat /\ TypeOK
         /\ \A k \in Live : SizeOf(k) \in Nat /\ Aligned(k)
<1>1. Ordered
  BY IInvFacts
<1>2. QED
  BY <1>1, FieldTypes DEF IInv, TypeOK, AllAligned, Ordered

(* A step that leaves the headers alone is none of the heap, or exit().    *)
LEMMA HeadersKept ==
  ASSUME head' = head, status' \in {status, "exited"}, status = "running" \/ status' = status
  PROVE  H!HNext \/ UNCHANGED H!hvars
<1>1. Blocks' = Blocks
  BY DEF Blocks, Live
<1>2. QED
  BY <1>1 DEF H!HNext, H!Exit, H!hvars

(* add_entry adds a header of the size asked for, and changes no other.    *)
LEMMA AddEntrySizes ==
  ASSUME IInv, AddEntry, NEW a, a = call.new_a
  PROVE  /\ a \in Nat /\ a \notin Live /\ status = "running" /\ status' = status
         /\ Live' = Live \cup {a} /\ SizeOf(a)' = call.size
         /\ \A k \in Live : SizeOf(k)' = SizeOf(k)
         /\ UNCHANGED <<brk, start>>
<1>1. a \in Nat /\ a \notin Live
  BY NewPlaceIsNew DEF AddEntry
<1>2. status = "running" /\ call # NoCall /\ Live \subseteq Nat /\ TypeOK
  BY SegmentTypes DEF AddEntry
<1>3. /\ AddToEmptyList \/ AddBeforeFirst \/ AddAfterSegment
      /\ status' = status /\ UNCHANGED <<brk, start>>
  BY <1>2, AddPlace DEF AddEntry, ASSERT
<1>4. CASE AddToEmptyList
  <2>1. Live = {}
    BY <1>4 DEF AddToEmptyList, IInv, FirstIsLowest, TypeOK, nullptr
  <2>2. head' = Put(Empty, a, NewHeader(NewTail))
    BY <1>4 DEF AddToEmptyList
  <2>3. DOMAIN head' = {a} /\ head'[a] = NewHeader(NewTail)
    BY <2>2 DEF Put, Empty
  <2>4. head'[a].seg_size = call.size
    BY <2>3 DEF NewHeader
  <2>5. QED
    BY <1>1, <1>2, <1>3, <2>1, <2>3, <2>4 DEF Live, SizeOf
<1>5. CASE AddBeforeFirst
  BY <1>1, <1>2, <1>3, <1>5, InsertSizes DEF AddBeforeFirst
<1>6. CASE AddAfterSegment
  BY <1>1, <1>2, <1>3, <1>6, InsertSizes DEF AddAfterSegment
<1>7. QED
  BY <1>3, <1>4, <1>5, <1>6

(* add_entry allocates.                                                    *)
LEMMA AddEntryAllocates ==
  ASSUME IInv, IInv', SegmentsDisjoint', CallSized, AddEntry
  PROVE  H!HNext
<1>1. PICK a \in Nat : a = call.new_a
  BY IInvFacts
<1>2. /\ status = "running" /\ call # NoCall /\ call.size \in Sizes /\ call.size \in Nat
      /\ Live \subseteq Nat /\ Aligned(a)
      /\ \A k \in Live : SizeOf(k) \in Nat
  BY <1>1, SegmentTypes, IInvFacts DEF AddEntry, CallSized, IInv, AllAligned
<1>3. /\ a \notin Live /\ status' = status
      /\ Live' = Live \cup {a} /\ SizeOf(a)' = call.size
      /\ \A k \in Live : SizeOf(k)' = SizeOf(k)
  BY <1>1, AddEntrySizes
<1> DEFINE p == a + SEG_HEAD
           n == call.size
<1>4. /\ Blocks' = Put(Blocks, p, n) /\ p \notin DOMAIN Blocks /\ p \in DOMAIN Blocks'
  BY <1>1, <1>2, <1>3, BlocksPut
<1>5. p # 0 /\ p % ALIGNMENT = 0
  <2>1. a \in Int /\ SEG_HEAD \in Nat \ {0} /\ Aligned(SEG_HEAD)
    BY AlignedSizes
  <2>2. Aligned(p) /\ p # 0
    BY <1>2, <2>1, AlignedSum
  <2>3. QED
    BY <2>2 DEF Aligned
<1>6. \A q \in DOMAIN Blocks : H!Apart(p, n, q)
  <2>1. ASSUME NEW k \in Live PROVE H!Apart(p, n, k + SEG_HEAD)
    <3>1. /\ a \in Live' /\ Live' \subseteq Nat /\ k # a /\ k \in Live'
          /\ SizeOf(k)' = SizeOf(k) /\ SizeOf(a)' = n
      BY <1>1, <1>2, <1>3, <2>1
    <3>2. QED
      BY <1>2, <3>1, ApartFromOthers
  <2>2. QED
    BY <1>2, <2>1, BlockOf
<1>7. H!Allocate(p, n)
  BY <1>3, <1>4, <1>5, <1>6 DEF H!Allocate, H!Pointers, H!Put, Put
<1>8. QED
  BY <1>2, <1>4, <1>7 DEF H!HNext

(* remove_segment takes one header away, and changes no other.             *)
LEMMA RemoveSizes ==
  ASSUME IInv, IInv', NEW h \in Live, RemoveSegment(h)
  PROVE  /\ status = "running" /\ status' = status
         /\ Live' = Live \ {h} /\ \A k \in Live \ {h} : SizeOf(k)' = SizeOf(k)
         /\ UNCHANGED <<start, call>>
<1>1. Live \subseteq Nat /\ TypeOK /\ status = "running"
  BY SegmentTypes DEF RemoveSegment, Idle
<1>2. status' # "aborted"
  BY DEF IInv, NoAbort
<1>3. CASE RemoveInner(h)
  <2>1. status' = status /\ UNCHANGED <<start, call>> /\ \E gap : Unlink(h, gap)
    BY <1>2, <1>3 DEF RemoveInner, ASSERT
  <2>2. QED
    BY <1>1, <2>1, UnlinkSizes
<1>4. CASE RemoveFirst(h)
  <2>1. status' = status /\ UNCHANGED <<start, call>> /\ \E gap : Unlink(h, gap)
    BY <1>2, <1>4 DEF RemoveFirst, ASSERT
  <2>2. QED
    BY <1>1, <2>1, UnlinkSizes
<1>5. CASE RemoveOnly(h)
  <2>1. status' = status /\ UNCHANGED <<start, call>> /\ head' = Drop(head, h)
    BY <1>2, <1>5 DEF RemoveOnly, ASSERT
  <2>2. QED
    BY <1>1, <2>1 DEF Drop, Live, SizeOf
<1>6. QED
  BY <1>3, <1>4, <1>5 DEF RemoveSegment

(* remove_segment releases its block, and no other.                        *)
LEMMA RemoveReleases ==
  ASSUME IInv, IInv', NEW h \in Live, RemoveSegment(h)
  PROVE  H!HNext
<1>1. Live \subseteq Nat
  BY SegmentTypes
<1>2. /\ status = "running" /\ status' = status
      /\ Live' = Live \ {h} /\ \A k \in Live \ {h} : SizeOf(k)' = SizeOf(k)
  BY RemoveSizes
<1>3. Blocks' = Drop(Blocks, h + SEG_HEAD) /\ h + SEG_HEAD \in DOMAIN Blocks
  BY <1>1, <1>2, BlocksDrop, BlockOf
<1>4. QED
  BY <1>2, <1>3 DEF H!HNext, H!Release, H!Pointers, H!Drop, Drop

(* shrink_segment and expand_segment change the size in one header.        *)
LEMMA ResizeSizes ==
  ASSUME IInv, NEW h \in Live, NEW n, ShrinkSegment(h, n) \/ ExpandSegment(h, n)
  PROVE  /\ status = "running" /\ status' = status
         /\ Live' = Live /\ SizeOf(h)' = n
         /\ \A k \in Live \ {h} : SizeOf(k)' = SizeOf(k)
         /\ UNCHANGED <<brk, start, call>>
<1>1. TypeOK
  BY SegmentTypes
<1>2. status' = status /\ MoveTail(h, n) /\ status = "running" /\ UNCHANGED <<brk, start, call>>
  BY DEF ShrinkSegment, ExpandSegment, Idle, arena
<1>3. QED
  BY <1>1, <1>2, MoveTailSizes

(* shrink_segment and expand_segment resize their block where it is.       *)
LEMMA MoveTailResizes ==
  ASSUME IInv, IInv', SegmentsDisjoint', NEW h \in Live, NEW n \in Sizes,
         ShrinkSegment(h, n) \/ ExpandSegment(h, n)
  PROVE  H!HNext
<1>1. /\ Live \subseteq Nat /\ n \in Nat
      /\ \A k \in Live : SizeOf(k) \in Nat
  BY SegmentTypes, ClientAssumption
<1>2. /\ status = "running" /\ status' = status
      /\ Live' = Live /\ SizeOf(h)' = n
      /\ \A k \in Live \ {h} : SizeOf(k)' = SizeOf(k)
  BY ResizeSizes
<1> DEFINE p == h + SEG_HEAD
<1>3. Blocks' = [Blocks EXCEPT ![p] = n] /\ p \in DOMAIN Blocks
  BY <1>1, <1>2, BlocksResize, BlockOf
<1>4. \A q \in DOMAIN Blocks \ {p} : H!Apart(p, n, q)
  <2>1. ASSUME NEW k \in Live, k # h PROVE H!Apart(p, n, k + SEG_HEAD)
    BY <1>1, <1>2, <2>1, ApartFromOthers
  <2>2. QED
    BY <1>1, <2>1, BlockOf
<1>5. H!Resize(p, n)
  BY <1>2, <1>3, <1>4 DEF H!Resize, H!Pointers
<1>6. QED
  BY <1>2, <1>3, <1>5 DEF H!HNext, H!Pointers

(* Every step of the list.                                                 *)
LEMMA HeapStep ==
  ASSUME IInv, IInv', SegmentsDisjoint', CallSized, [Next]_vars
  PROVE  H!HNext \/ UNCHANGED H!hvars
<1>1. status' # "aborted"
  BY DEF IInv, NoAbort
<1>2. ASSUME NEW size \in Sizes, FindFreeSeg(size) PROVE H!HNext \/ UNCHANGED H!hvars
  <2>1. head' = head /\ status = "running" /\ status' \in {status, "exited"}
    BY <1>1, <1>2 DEF FindFreeSeg, Idle, FindGap, CreateList, ExpandArena, expand_list,
       ExpandEmptyList, ExpandAfterLast, ExpandFails, ASSERT
  <2>2. QED
    BY <2>1, HeadersKept
<1>3. CASE ClearAllocStorage
  <2>1. status = "running" /\ status' = status /\ head' = Empty
    BY <1>3 DEF ClearAllocStorage, Idle
  <2>2. Blocks' = Empty
    BY <2>1 DEF Blocks, Live, Empty
  <2>3. QED
    BY <2>1, <2>2 DEF H!HNext, H!ReleaseAll, H!Empty, Empty
<1>4. CASE ResetLastAddr \/ Stopped \/ UNCHANGED vars
  <2>1. head' = head /\ status' = status
    BY <1>4 DEF ResetLastAddr, Stopped, vars
  <2>2. QED
    BY <2>1, HeadersKept
<1>5. QED
  BY <1>2, <1>3, <1>4, AddEntryAllocates, RemoveReleases, MoveTailResizes DEF Next

(* The clients of the segment list see nothing but the heap of Heap.tla:   *)
(* new blocks are aligned and clear of all others, and an operation on one *)
(* block neither moves nor resizes another.                                *)
THEOREM ListImplementsHeap == Spec => ImplementsHeap
<1>1. Init => H!HInit
  <2> SUFFICES ASSUME Init PROVE H!HInit
    OBVIOUS
  <2>1. status = "running" /\ head = Empty
    BY DEF Init
  <2>2. Blocks = Empty
    BY <2>1 DEF Blocks, Live, Empty
  <2>3. QED
    BY <2>1, <2>2 DEF H!HInit, H!Empty, Empty
<1>2. IInv /\ IInv' /\ SegmentsDisjoint' /\ CallSized /\ [Next]_vars => [H!HNext]_(H!hvars)
  BY HeapStep
<1>3. QED
  BY <1>1, <1>2, Invariance, SegmentsNeverOverlap, CallSizedInv, PTL
     DEF Spec, ImplementsHeap, H!HSpec

-----------------------------------------------------------------------------
(***************************************************************************)
(* How far the arena grows and contracts.                                  *)
(***************************************************************************)

(* Behind the list header: the gap the call gets is short of what it asked *)
(* for by nothing, and longer by less than a page.                         *)
LEMMA EmptyListGrowth ==
  ASSUME IInv, Idle, NEW size \in Sizes, start # nullptr, FittingGaps(size) = {},
         ExpandEmptyList(size)
  PROVE  call'.size = size /\ (GapAt(call.new_a) - PAGE_SIZE)' < TotalSize(size)
<1> DEFINE to_expand == TotalSize(size) - (end_addr - Base)
           grow      == PageCeil(to_expand)
<1>1. /\ size \in Nat /\ TotalSize(size) \in Nat /\ Base \in Nat /\ end_addr \in Nat
      /\ first_seg = nullptr /\ PAGE_SIZE \in Nat \ {0}
  BY IInvFacts, ClientAssumption, TotalSizeFacts, LayoutAssumption DEF ExpandEmptyList
<1>2. to_expand \in Nat \ {0}
  BY <1>1 DEF FittingGaps, StartGap
<1>3. /\ first_seg' = nullptr /\ end_addr' = end_addr + grow /\ Base' = Base
      /\ call' = [new_a |-> Base, size |-> size]
  BY <1>1, <1>2 DEF ExpandEmptyList, ASSERT, sbrk, Found, Base
<1>4. grow \in Nat /\ grow < to_expand + PAGE_SIZE
  BY <1>2, PageCeilFacts
<1> HIDE DEF grow
<1>5. call'.size = size /\ call'.new_a = Base'
  BY <1>3
<1>6. GapAt(call.new_a)' = end_addr' - Base'
  BY <1>3, <1>5 DEF GapAt, StartGap
<1>7. QED
  BY <1>1, <1>2, <1>3, <1>4, <1>5, <1>6

(* Behind the last segment: the same.                                      *)
LEMMA LastGapGrowth ==
  ASSUME IInv, Idle, NEW size \in Sizes, start # nullptr, FittingGaps(size) = {},
         ExpandAfterLast(size), status' # "aborted"
  PROVE  call'.size = size /\ (GapAt(call.new_a) - PAGE_SIZE)' < TotalSize(size)
<1> DEFINE to_expand == TotalSize(size) - tail[LastTail].free_following
           grow      == PageCeil(to_expand)
<1>1. /\ size \in Nat /\ TotalSize(size) \in Nat /\ Base \in Nat /\ end_addr \in Nat
      /\ Ordered /\ PAGE_SIZE \in Nat \ {0} /\ SEG_TAIL \in Nat \ {0} /\ Live # {}
  BY IInvFacts, ClientAssumption, TotalSizeFacts, LayoutAssumption
     DEF ExpandAfterLast, IInv, FirstIsLowest
<1>2. PICK q \in Live : LastTail = TailOf(q)
  BY <1>1, LastSegment
<1>3. /\ LastTail \in Nat /\ LastTail \in DOMAIN tail
      /\ tail[LastTail].free_following \in Nat
      /\ Base <= q /\ q < LastTail
  <2>1. Base <= q /\ q \in Nat
    <3>1. first_seg \in Live /\ Base <= first_seg /\ first_seg <= q
      BY <1>1 DEF Ordered, FirstIsLowest
    <3>2. first_seg \in Nat /\ q \in Nat
      BY <3>1, <1>1, FieldTypes DEF Ordered
    <3>3. QED
      BY <3>1, <3>2, <1>1
  <2>2. TailOf(q) \in Nat /\ TailOf(q) \in DOMAIN tail /\ GapOf(q) \in Nat /\ TailOf(q) > q
    BY <1>1, FieldTypes DEF Ordered
  <2>3. LastTail = TailOf(q) /\ tail[LastTail].free_following = GapOf(q)
    BY <1>2 DEF GapOf, TailOf
  <2>4. Base <= q
    BY <2>1
  <2>5. QED
    BY <2>2, <2>3, <2>4
<1>4. /\ tail[LastTail].free_following < TotalSize(size)
      /\ tail' = [tail EXCEPT ![LastTail].free_following = @ + grow]
      /\ call' = [new_a |-> LastTail + SEG_TAIL, size |-> size] /\ start' = start
  BY DEF ExpandAfterLast, ASSERT, Found
<1>5. to_expand \in Nat /\ grow \in Nat /\ grow < to_expand + PAGE_SIZE
  BY <1>1, <1>3, <1>4, PageCeilFacts
<1> HIDE DEF grow
<1>6. /\ call'.size = size /\ call'.new_a = LastTail + SEG_TAIL /\ call'.new_a # Base'
      /\ call'.new_a - SEG_TAIL = LastTail
  <2>1. call'.size = size /\ call'.new_a = LastTail + SEG_TAIL /\ Base' = Base
    BY <1>4 DEF Base
  <2>2. q \in Nat
    BY <1>1, FieldTypes DEF Ordered
  <2>3. LastTail + SEG_TAIL # Base /\ (LastTail + SEG_TAIL) - SEG_TAIL = LastTail
    BY <2>2, <1>1, <1>3
  <2>4. QED
    BY <2>1, <2>3
<1>7. GapAt(call.new_a)' = tail[LastTail].free_following + grow
  <2>1. tail'[LastTail].free_following = tail[LastTail].free_following + grow
    BY <1>3, <1>4 DEF IInv, TypeOK, SegTail
  <2>2. QED
    BY <2>1, <1>6 DEF GapAt
<1>8. QED
  BY <1>1, <1>3, <1>5, <1>6, <1>7

(* Nothing but expand_list raises the end of an existing arena.            *)
LEMMA GrowthStep ==
  ASSUME IInv, IInv', [Next]_vars, start # nullptr, end_addr' > end_addr
  PROVE  /\ FittingGaps(call'.size) = {}
         /\ (GapAt(call.new_a) - PAGE_SIZE)' < TotalSize(call'.size)
<1>1. status' # "aborted" /\ end_addr \in Nat /\ Base \in Nat /\ Base <= end_addr
  BY IInvFacts DEF IInv, NoAbort, ArenaInPages
<1>2. ASSUME NEW size \in Sizes, FindFreeSeg(size)
      PROVE  /\ FittingGaps(call'.size) = {}
             /\ (GapAt(call.new_a) - PAGE_SIZE)' < TotalSize(call'.size)
  <2>1. /\ Idle /\ FittingGaps(size) = {}
        /\ ExpandEmptyList(size) \/ ExpandAfterLast(size)
    BY <1>1, <1>2 DEF FindFreeSeg, FindGap, CreateList, ExpandArena, expand_list,
       ExpandFails, arena
  <2>2. call'.size = size /\ (GapAt(call.new_a) - PAGE_SIZE)' < TotalSize(size)
    BY <1>1, <2>1, EmptyListGrowth, LastGapGrowth
  <2>3. QED
    BY <2>1, <2>2
<1>3. ASSUME NEW h \in Live, RemoveSegment(h) PROVE FALSE
  <2>1. Idle
    BY <1>3 DEF RemoveSegment
  <2>2. CASE RemoveInner(h)
    <3>1. /\ Contraction(MergedGap(h)) \in Nat
      <4>1. PICK q \in Live : /\ MergedGap(h) = GapOf(q) + TotalSize(SizeOf(h)) + GapOf(h)
                              /\ GapOf(q) \in Nat /\ TotalSize(SizeOf(h)) \in Nat
                              /\ GapOf(h) \in Nat
        BY RemoveContext
      <4>2. QED
        BY <4>1, ContractionFacts
    <3>2. \E shrunk \in Nat : end_addr' = end_addr - shrunk
      BY <3>1, <2>2, <1>1 DEF RemoveInner, ASSERT
    <3>3. QED
      BY <3>2, <1>1
  <2>3. CASE RemoveOnly(h) \/ RemoveFirst(h)
    <3>1. end_addr' = Base \/ end_addr' = end_addr
      BY <2>3, <1>1 DEF RemoveOnly, RemoveFirst, ASSERT
    <3>2. QED
      BY <3>1, <1>1
  <2>4. QED
    BY <1>3, <2>2, <2>3 DEF RemoveSegment
<1>4. ASSUME \/ AddEntry \/ \E h \in Live, n \in Sizes : ShrinkSegment(h, n) \/ ExpandSegment(h, n)
             \/ ClearAllocStorage \/ ResetLastAddr \/ Stopped \/ UNCHANGED vars
      PROVE  FALSE
  <2>1. end_addr' = end_addr \/ end_addr' = Base
    BY <1>1, <1>4 DEF AddEntry, ASSERT, ShrinkSegment, ExpandSegment, ClearAllocStorage,
       ResetLastAddr, Stopped, vars, arena
  <2>2. QED
    BY <2>1, <1>1
<1>5. QED
  BY <1>2, <1>3, <1>4 DEF Next

(* The arena grows only when no gap fits, and then by less than a page     *)
(* more than what is missing.                                              *)
THEOREM GrowsOnlyByNeed == Spec => GrowsByNeed
<1>1. IInv /\ IInv' /\ [Next]_vars
        => [start # nullptr /\ end_addr' > end_addr =>
              /\ FittingGaps(call'.size) = {}
              /\ (GapAt(call.new_a) - PAGE_SIZE)' < TotalSize(call'.size)]_vars
  BY GrowthStep
<1>2. QED
  BY <1>1, Invariance, PTL DEF Spec, GrowsByNeed

(* The last of several segments goes: whole pages are returned, and at     *)
(* most one page stays behind the segment that is last now.                *)
LEMMA ContractionStep ==
  ASSUME IInv, IInv', NEW h \in Live, RemoveSegment(h), h # first_seg,
         NextHead(h) = first_seg
  PROVE  status' = "running" /\ end_addr' - (LastTail' + SEG_TAIL) <= PAGE_SIZE
<1>1. Idle /\ RemoveInner(h) /\ status' # "aborted"
  BY DEF RemoveSegment, RemoveOnly, RemoveFirst, IInv, NoAbort
<1>2. PICK q \in Live :
        /\ q = PrevHead(h) /\ NextHead(q) = h /\ head[h].prev_seg_tail = TailOf(q)
        /\ GapOf(h) \in Nat /\ GapOf(q) \in Nat /\ TotalSize(SizeOf(h)) \in Nat
        /\ EndOf(q) = TailOf(q) + SEG_TAIL /\ TailOf(q) \in Nat
        /\ EndOf(h) = h + TotalSize(SizeOf(h))
        /\ MergedGap(h) = GapOf(q) + TotalSize(SizeOf(h)) + GapOf(h)
  BY <1>1, RemoveContext
<1>3. Ordered /\ end_addr \in Nat /\ PAGE_SIZE \in Nat \ {0} /\ SEG_TAIL \in Nat \ {0}
  BY IInvFacts, LayoutAssumption
<1>4. EndOf(h) + GapOf(h) = end_addr /\ h \in Nat /\ q \in Nat
      /\ \A k \in Live : k <= h
  <2>1. h = PrevHead(first_seg)
    BY <1>3, LastSegment
  <2>2. QED
    BY <2>1, <1>3, LastSegment, FieldTypes DEF Ordered
<1>5. q < h /\ EndOf(q) + GapOf(q) = h
  <2>1. q # h
    BY <1>2
  <2>2. q < h
    BY <2>1, <1>4
  <2>3. QED
    BY <2>2, <1>2, <1>3, Below
<1> DEFINE merged == MergedGap(h)
           shrunk == Contraction(merged)
<1>6. merged \in Nat /\ TailOf(q) + SEG_TAIL + merged = end_addr
  BY <1>2, <1>3, <1>4, <1>5
<1>7. shrunk \in Nat /\ shrunk <= merged /\ merged - shrunk <= PAGE_SIZE
  <2>1. PageFloor(merged) \in Nat /\ merged < PageFloor(merged) + PAGE_SIZE
    BY <1>6, PageFloorFacts
  <2>2. shrunk \in Nat /\ shrunk <= merged
    BY <1>6, ContractionFacts
  <2>3. shrunk = IF merged > PAGE_SIZE THEN PageFloor(merged) ELSE 0
    BY DEF Contraction
  <2> HIDE DEF merged, shrunk
  <2>4. QED
    BY <2>1, <2>2, <2>3, <1>3, <1>6
<1>8. end_addr' = end_addr - shrunk /\ Unlink(h, merged - shrunk) /\ status' = status
      /\ first_seg' = first_seg
  BY <1>1 DEF RemoveInner, ASSERT
<1> HIDE DEF merged, shrunk
<1>9. LastTail' = TailOf(q)
  <2>1. first_seg \in Live /\ head[first_seg].prev_seg_tail = TailOf(h)
        /\ first_seg # h /\ head \in [Live -> SegHead]
    BY <1>3, LastSegment, Neighbours DEF Ordered, TypeOK
  <2>2. head' = Drop([head EXCEPT ![first_seg].prev_seg_tail = TailOf(q)], h)
    BY <1>2, <1>8 DEF Unlink, NextHead
  <2>3. head'[first_seg].prev_seg_tail = TailOf(q)
    BY <2>1, <2>2 DEF Drop, SegHead, Live
  <2>4. QED
    BY <2>3, <1>8 DEF LastTail
<1>10. status' = "running"
  BY <1>1, <1>8 DEF Idle
<1>11. QED
  BY <1>2, <1>3, <1>6, <1>7, <1>8, <1>9, <1>10

(* remove_segment contracts the arena in whole pages whenever the last of  *)
(* several segments goes, and never leaves more than a page behind.        *)
THEOREM ContractsInFull == Spec => ContractsFully
<1>1. IInv /\ IInv' /\ [Next]_vars
        => [(\E h \in Live : RemoveSegment(h) /\ h # first_seg /\ NextHead(h) = first_seg)
              => status' = "running" /\ end_addr' - (LastTail' + SEG_TAIL) <= PAGE_SIZE]_vars
  BY ContractionStep
<1>2. QED
  BY <1>1, Invariance, PTL DEF Spec, ContractsFully
=============================================================================
