--------------------------- MODULE AllocatorProofs ---------------------------
(***************************************************************************)
(* The whole allocator is safe, for any number of threads, any layout and  *)
(* any sizes.  Nothing is proved again that holds of a part: S instances   *)
(* the proofs about the segment list, P those about the calls on the       *)
(* abstract heap, and AInv puts their two inductive invariants together,   *)
(* with what neither part can say: that a call's place is the one the list *)
(* has kept for it, and which byte of the arena belongs to whom.           *)
(*                                                                         *)
(* Each step of the allocator is shown to be a step of the list or to      *)
(* leave the list alone, and a step of the calls on the abstract heap; the *)
(* lemmas NextInv of the two parts then give their invariants after the    *)
(* step.  The second fact is the refinement itself (ImplementsMethods).    *)
(***************************************************************************)
EXTENDS Allocator, FiniteSetTheorems, TLAPS

S == INSTANCE HeapProofs WITH Sizes <- Sizes \ {0}, MaxSegs <- 2 * MaxBlocks

P == INSTANCE MethodsProofs
       WITH Ptrs <- UserAddresses, blocks <- Blocks, mem <- Contents,
            listed <- (start # nullptr), req <- Requests

(* The segments, and where one starts, holds its user bytes and ends. *)
Segs == DOMAIN head
Size(h) == head[h].seg_size
TailOf(h) == head[h].next_seg_tail
EndOf(h) == TailOf(h) + SEG_TAIL

Request == [op : {"none", "malloc", "calloc", "free", "realloc"},
            ptr : Nat, size : Sizes, old_size : Sizes,
            place : Nat, new_a : Nat, result : Nat, trust : P!Trust]

Tags == {Junk, Zero, Struct} \cup Threads

Typed ==
  /\ req \in [Threads -> Request]
  /\ bytes \in [1..BreakLimit -> Tags]

(* What add_entry will use is what find_free_seg found for this call. *)
PlaceKept ==
  \A t \in Threads : pc[t] = "m_add" => call = [new_a |-> req[t].place, size |-> req[t].size]

(* The bytes of the segment at h: structs at both ends, padding in between *)
(* that nobody relies on; the user bytes are the clients' business.        *)
SegmentIntact(h) ==
  \A a \in 1..BreakLimit :
    /\ h <= a /\ a < h + SEG_HEAD => bytes[a] = Struct
    /\ h + SEG_HEAD + Size(h) <= a /\ a < TailOf(h) => bytes[a] = Junk
    /\ TailOf(h) <= a /\ a < EndOf(h) => bytes[a] = Struct

InListHead(a) == start # nullptr /\ start <= a /\ a < start + LIST_HEAD

(* Every byte of the arena. *)
ArenaIntact ==
  /\ \A h \in Segs : SegmentIntact(h)
  /\ \A a \in 1..BreakLimit :
       /\ InListHead(a) => bytes[a] = Struct
       /\ ~ InListHead(a) /\ (\A h \in Segs : a < h \/ EndOf(h) <= a) => bytes[a] = Junk

AInv ==
  /\ S!IInv /\ S!BreakBounded /\ P!MIInv
  /\ Typed /\ PlaceKept /\ ArenaIntact

-----------------------------------------------------------------------------
(***************************************************************************)
(* L and S are the same segment list, M and P the same abstract heap.      *)
(***************************************************************************)

(* The sizes of memory_mgmt.c.                                             *)
LEMMA SameLayout ==
  ASSUME NEW x, NEW y
  PROVE  /\ L!round_up(x, y) = S!round_up(x, y) /\ L!TotalSize(x) = S!TotalSize(x)
         /\ L!TailAt(x, y) = S!TailAt(x, y) /\ L!PageCeil(x) = S!PageCeil(x)
         /\ L!PageFloor(x) = S!PageFloor(x)
  BY DEF L!round_up, S!round_up, L!TotalSize, S!TotalSize, L!TailAt, S!TailAt,
     L!PageCeil, S!PageCeil, L!PageFloor, S!PageFloor

(* The list and its blocks.                                                *)
LEMMA SameState ==
  /\ L!Live = Segs /\ S!Live = Segs /\ L!NewTail = S!NewTail /\ Blocks = S!Blocks
  /\ \A h : S!SizeOf(h) = Size(h) /\ S!TailOf(h) = TailOf(h)
  BY SameLayout DEF L!Live, S!Live, L!NewTail, S!NewTail, Blocks, S!Blocks, HeaderOf,
     Segs, Size, TailOf, S!SizeOf, S!TailOf

(* The initial states.                                                     *)
LEMMA SameInit ==
  /\ L!Init => S!Init
  /\ P!MInit => M!MInit
  BY DEF L!Init, S!Init, L!nullptr, S!nullptr, L!Empty, S!Empty, L!NoCall, S!NoCall,
     P!MInit, M!MInit, P!CInit, M!CInit, P!NoReq, M!NoReq, P!NoTrust, M!NoTrust,
     P!nullptr, M!nullptr, P!Empty, M!Empty

(* find_free_seg.                                                          *)
LEMMA SameFind ==
  ASSUME NEW n, L!FindFreeSeg(n)
  PROVE  S!FindFreeSeg(n)
<1>1. L!FittingGaps(n) = S!FittingGaps(n)
  BY SameLayout DEF L!FittingGaps, S!FittingGaps, L!StartGap, S!StartGap, L!Base, S!Base,
     L!nullptr, S!nullptr
<1>2. (L!Idle <=> S!Idle) /\ L!Live = S!Live
  BY DEF L!Idle, S!Idle, L!Live, S!Live, L!NoCall, S!NoCall, L!nullptr, S!nullptr
<1>3. L!FindGap(n) => S!FindGap(n)
  BY <1>1 DEF L!FindGap, S!FindGap, L!Found, S!Found, L!arena, S!arena, L!nullptr, S!nullptr
<1>4. L!CreateList(n) => S!CreateList(n)
  BY SameLayout DEF L!CreateList, S!CreateList, L!Found, S!Found, L!sbrk, S!sbrk,
     L!nullptr, S!nullptr
<1>5. L!ExpandEmptyList(n) => S!ExpandEmptyList(n)
  BY SameLayout DEF L!ExpandEmptyList, S!ExpandEmptyList, L!Found, S!Found, L!sbrk, S!sbrk,
     L!ASSERT, S!ASSERT, L!arena, S!arena, L!nullptr, S!nullptr, L!Base, S!Base
<1>6. L!ExpandAfterLast(n) => S!ExpandAfterLast(n)
  BY SameLayout DEF L!ExpandAfterLast, S!ExpandAfterLast, L!Found, S!Found, L!sbrk, S!sbrk,
     L!ASSERT, S!ASSERT, L!arena, S!arena, L!nullptr, S!nullptr, L!LastTail, S!LastTail,
     L!LastTailChecks, S!LastTailChecks
<1>7. L!ExpandFails => S!ExpandFails
  BY DEF L!ExpandFails, S!ExpandFails, L!arena, S!arena
<1>8. L!ExpandArena(n) => S!ExpandArena(n)
  BY <1>1, <1>5, <1>6, <1>7
     DEF L!ExpandArena, S!ExpandArena, L!expand_list, S!expand_list, L!nullptr, S!nullptr
<1>9. L!Cardinality(L!Live) = S!Cardinality(S!Live)
  BY DEF L!Cardinality, S!Cardinality, L!Live, S!Live
<1>10. QED
  BY <1>2, <1>3, <1>4, <1>7, <1>8, <1>9
     DEF L!FindFreeSeg, S!FindFreeSeg, L!nullptr, S!nullptr

(* add_entry.                                                              *)
LEMMA SameAdd ==
  ASSUME L!AddEntry
  PROVE  S!AddEntry
  BY DEF L!AddEntry, S!AddEntry, L!ASSERT, S!ASSERT, L!AddChecks, S!AddChecks,
     L!GapChecks, S!GapChecks, L!AddToEmptyList, S!AddToEmptyList,
     L!AddBeforeFirst, S!AddBeforeFirst, L!AddAfterSegment, S!AddAfterSegment,
     L!NewTail, S!NewTail, L!TailAt, S!TailAt, L!round_up, S!round_up,
     L!TotalSize, S!TotalSize, L!Base, S!Base, L!Insert, S!Insert,
     L!NewHeader, S!NewHeader, L!NewTrailer, S!NewTrailer,
     L!get_prev_reference, S!get_prev_reference, L!NoCall, S!NoCall, L!arena, S!arena,
     L!nullptr, S!nullptr, L!Put, S!Put, L!Empty, S!Empty, L!LastTail, S!LastTail

(* remove_segment.                                                         *)
LEMMA SameRemove ==
  ASSUME NEW h, L!RemoveSegment(h)
  PROVE  S!RemoveSegment(h)
  BY DEF L!RemoveSegment, S!RemoveSegment, L!Idle, S!Idle, L!Live, S!Live,
     L!RemoveInner, S!RemoveInner, L!RemoveOnly, S!RemoveOnly, L!RemoveFirst, S!RemoveFirst,
     L!ASSERT, S!ASSERT, L!RemoveChecks, S!RemoveChecks, L!MergedGap, S!MergedGap,
     L!Contraction, S!Contraction, L!Unlink, S!Unlink, L!LastAddr, S!LastAddr, L!Drop, S!Drop,
     L!NextHead, S!NextHead, L!LastTail, S!LastTail, L!LastTailChecks, S!LastTailChecks,
     L!Base, S!Base, L!round_up, S!round_up, L!TotalSize, S!TotalSize, L!NoCall, S!NoCall,
     L!arena, S!arena, L!nullptr, S!nullptr, L!PageFloor, S!PageFloor

(* shrink_segment and expand_segment.                                      *)
LEMMA SameResize ==
  ASSUME NEW h, NEW n
  PROVE  /\ L!ExpandSegment(h, n) => S!ExpandSegment(h, n)
         /\ L!ShrinkSegment(h, n) => S!ShrinkSegment(h, n)
  BY DEF L!ExpandFits, S!ExpandFits, L!ExpandSegment, S!ExpandSegment,
     L!ShrinkSegment, S!ShrinkSegment, L!MoveTail, S!MoveTail, L!Idle, S!Idle,
     L!Live, S!Live, L!LastAddr, S!LastAddr, L!Drop, S!Drop, L!Put, S!Put,
     L!TailAt, S!TailAt, L!round_up, S!round_up, L!TotalSize, S!TotalSize,
     L!NoCall, S!NoCall, L!arena, S!arena, L!nullptr, S!nullptr

(* A step of a call.                                                       *)
LEMMA SameCallStep ==
  ASSUME NEW t, P!Step(t)
  PROVE  M!Step(t)
  BY DEF P!Step, M!Step, P!find_free_seg, M!find_free_seg, P!add_entry, M!add_entry,
     P!set_mem_zero, M!set_mem_zero, P!remove_segment, M!remove_segment,
     P!ReadSize, M!ReadSize, P!shrink_segment, M!shrink_segment,
     P!expand_segment, M!expand_segment, P!copy_mem, M!copy_mem,
     P!ControlStep, M!ControlStep, P!HeapUntouched, M!HeapUntouched,
     P!FoundPlace, M!FoundPlace, P!NoPlace, M!NoPlace, P!At, M!At,
     P!EntryAdded, M!EntryAdded, P!Put, M!Put, P!Drop, M!Drop, P!Scribble, M!Scribble,
     P!Fill, M!Fill, P!MemZeroed, M!MemZeroed, P!SegmentRemoved, M!SegmentRemoved,
     P!SizeKnown, M!SizeKnown, P!SegmentShrunk, M!SegmentShrunk,
     P!SegmentExpanded, M!SegmentExpanded, P!Resized, M!Resized, P!NoRoom, M!NoRoom,
     P!MemCopied, M!MemCopied, P!Goto, M!Goto, P!Result, M!Result,
     P!ControlElsewhere, M!ControlElsewhere, P!Unlock, M!Unlock,
     P!malloc_unlock, M!malloc_unlock, P!expand_unlock, M!expand_unlock,
     P!Return, M!Return, P!nullptr, M!nullptr, P!NoReq, M!NoReq, P!NoTrust, M!NoTrust

(* The lock.                                                               *)
LEMMA SameAcquire ==
  ASSUME NEW t, P!Acquire(t)
  PROVE  M!Acquire(t)
  BY DEF P!Acquire, M!Acquire, P!TakeLock, M!TakeLock, P!Lock, M!Lock, P!At, M!At,
     P!Goto, M!Goto, P!HeapUntouched, M!HeapUntouched

(* A client's step.                                                        *)
LEMMA SameClient ==
  ASSUME NEW t, P!Client(t)
  PROVE  M!Client(t)
  BY DEF P!Client, M!Client, P!malloc, M!malloc, P!calloc, M!calloc, P!free, M!free,
     P!realloc, M!realloc, P!HandOver, M!HandOver, P!HeapUntouched, M!HeapUntouched,
     P!Write, M!Write, P!Filled, M!Filled, P!Fill, M!Fill, P!Call, M!Call,
     P!Owned, M!Owned, P!At, M!At, P!Goto, M!Goto, P!nullptr, M!nullptr,
     P!NoReq, M!NoReq, P!NoTrust, M!NoTrust, P!Drop, M!Drop, P!Sizes, M!Sizes

(* All steps, stuttering ones included.                                    *)
LEMMA SameNext ==
  /\ P!MNext => M!MNext
  /\ UNCHANGED P!mvars => UNCHANGED M!mvars
<1>1. P!Stopped => M!Stopped
  BY DEF P!Stopped, M!Stopped, P!mvars, M!mvars
<1>2. P!MNext => M!MNext
  BY <1>1, SameCallStep, SameAcquire, SameClient DEF P!MNext, M!MNext
<1>3. QED
  BY <1>2 DEF P!mvars, M!mvars

-----------------------------------------------------------------------------
(***************************************************************************)
(* MallocAPI, as P and as M see it.                                        *)
(***************************************************************************)

(* The clients see the same blocks and calls.                              *)
LEMMA SameView ==
  /\ P!OwnedBlocks = M!OwnedBlocks /\ P!CallsSeen = M!CallsSeen
  /\ P!OwnedBlocks' = M!OwnedBlocks' /\ P!CallsSeen' = M!CallsSeen'
  /\ P!nullptr = M!nullptr /\ P!Empty = M!Empty
BY DEF P!OwnedBlocks, M!OwnedBlocks, P!CallsSeen, M!CallsSeen, P!BlockOf, M!BlockOf,
   P!UserData, M!UserData, P!nullptr, M!nullptr, P!Empty, M!Empty

(* A client's call.                                                        *)
LEMMA SameInvoke ==
  ASSUME NEW t, P!API!Invoke(t) PROVE M!API!Invoke(t)
<1>1. /\ P!API!Empty = M!API!Empty /\ P!API!NoCall = M!API!NoCall
      /\ \A x : P!API!Drop(P!OwnedBlocks, x) = M!API!Drop(M!OwnedBlocks, x)
  BY SameView DEF P!API!Empty, M!API!Empty, P!API!NoCall, M!API!NoCall, P!API!Drop, M!API!Drop
<1>2. \A op, p, n : P!API!Call(t, op, p, n) => M!API!Call(t, op, p, n)
  BY <1>1, SameView DEF P!API!Call, M!API!Call, P!API!Idle, M!API!Idle
<1>3. QED
  BY <1>2, SameView DEF P!API!Invoke, M!API!Invoke

(* The four functions.                                                     *)
LEMMA SameEffect ==
  ASSUME NEW t
  PROVE  /\ P!API!malloc(t) => M!API!malloc(t)
         /\ P!API!calloc(t) => M!API!calloc(t)
         /\ P!API!free(t) => M!API!free(t)
         /\ P!API!realloc(t) => M!API!realloc(t)
BY SameView DEF P!API!malloc, M!API!malloc, P!API!calloc, M!API!calloc, P!API!free, M!API!free,
   P!API!realloc, M!API!realloc, P!API!Pending, M!API!Pending, P!API!Fresh, M!API!Fresh,
   P!API!TakesEffect, M!API!TakesEffect, P!API!GoesOn, M!API!GoesOn,
   P!API!Contents, M!API!Contents, P!API!Bytes, M!API!Bytes, P!API!Empty, M!API!Empty

(* The other steps.                                                        *)
LEMMA SameRest ==
  ASSUME NEW t, NEW p, NEW u
  PROVE  /\ P!API!Return(t) => M!API!Return(t)
         /\ P!API!Write(t, p) => M!API!Write(t, p)
         /\ P!API!HandOver(t, u, p) => M!API!HandOver(t, u, p)
         /\ P!API!Exit => M!API!Exit
BY SameView DEF P!API!Return, M!API!Return, P!API!Write, M!API!Write,
   P!API!HandOver, M!API!HandOver, P!API!Exit, M!API!Exit, P!API!Suffices, M!API!Suffices,
   P!API!Put, M!API!Put, P!API!NoCall, M!API!NoCall, P!API!Empty, M!API!Empty,
   P!API!Idle, M!API!Idle, P!API!Pending, M!API!Pending

(* All steps, stuttering ones included.                                    *)
LEMMA SameAPI == [P!API!APINext]_(P!API!apivars) => [M!API!APINext]_(M!API!apivars)
<1>1. UNCHANGED P!API!apivars => UNCHANGED M!API!apivars
  BY SameView DEF P!API!apivars, M!API!apivars
<1>2. P!API!APINext => M!API!APINext
  BY <1>1, SameView, SameInvoke, SameEffect, SameRest
     DEF P!API!APINext, M!API!APINext, P!API!Unseen, M!API!Unseen
<1>3. QED
  BY <1>1, <1>2

-----------------------------------------------------------------------------
(***************************************************************************)
(* What the proofs of the parts say here.                                  *)
(***************************************************************************)

(* Sizes of the structs and bounds.                                        *)
LEMMA Constants ==
  /\ ALIGNMENT \in Nat \ {0} /\ LIST_HEAD \in Nat \ {0}
  /\ SEG_HEAD \in Nat \ {0} /\ SEG_TAIL \in Nat \ {0} /\ SEG_HEAD % ALIGNMENT = 0
  /\ BreakLimit \in Nat /\ MaxSize \in Nat \ {0} /\ Sizes \subseteq Nat /\ nullptr = 0
  /\ S!LayoutAssumption /\ S!ClientAssumption /\ P!CallsAssumption /\ P!MethodsAssumption
  BY ArenaAssumption, AllocatorAssumption, CallsAssumption
     DEF Sizes, nullptr, P!nullptr, S!LayoutAssumption, S!ClientAssumption,
         P!CallsAssumption, P!MethodsAssumption, UserAddresses

(* A step of the list keeps the list's invariant.                          *)
LEMMA ListNext ==
  ASSUME S!IInv, S!BreakBounded, [S!Next]_(S!vars)
  PROVE  S!IInv' /\ S!BreakBounded'
  BY S!NextInv, S!BreakBoundedStep, Constants
     DEF S!LayoutAssumption, S!ClientAssumption

(* A step of the calls on the abstract heap keeps theirs.                  *)
LEMMA CallsNext ==
  ASSUME P!MIInv, [P!MNext]_(P!mvars)
  PROVE  P!MIInv'
  BY P!NextInv, Constants DEF P!CallsAssumption, P!MethodsAssumption

(* Where the segments lie. *)
Layout ==
  /\ start \in Nat
  /\ \A h \in Segs :
       /\ h \in Nat /\ h % ALIGNMENT = 0 /\ Size(h) \in Nat
       /\ TailOf(h) = S!TailAt(h, Size(h)) /\ TailOf(h) \in Nat
       /\ h + SEG_HEAD + Size(h) <= TailOf(h)
       /\ start # nullptr /\ start + LIST_HEAD <= h /\ EndOf(h) <= BreakLimit
       /\ \A k \in Segs : h < k => EndOf(h) <= k
  /\ DOMAIN tail = {TailOf(h) : h \in Segs}

(* It follows from the invariant of the list.                              *)
LEMMA LayoutHolds == S!IInv /\ S!BreakBounded => Layout
<1> SUFFICES ASSUME S!IInv, S!BreakBounded PROVE Layout
  OBVIOUS
<1>1. /\ start \in Nat
      /\ \A h \in Segs :
           /\ h \in Nat /\ S!Aligned(h) /\ Size(h) \in Nat
           /\ TailOf(h) = S!TailAt(h, Size(h)) /\ TailOf(h) \in Nat
           /\ h + SEG_HEAD + Size(h) <= TailOf(h)
           /\ start # S!nullptr /\ start + LIST_HEAD <= h /\ TailOf(h) + SEG_TAIL <= brk
           /\ \A k \in Segs : h < k => TailOf(h) + SEG_TAIL <= k
      /\ DOMAIN tail = {TailOf(h) : h \in Segs}
  <2>1. /\ start \in Nat
        /\ \A h \in S!Live :
             /\ h \in Nat /\ S!Aligned(h) /\ S!SizeOf(h) \in Nat
             /\ S!TailOf(h) = S!TailAt(h, S!SizeOf(h)) /\ S!TailOf(h) \in Nat
             /\ h + SEG_HEAD + S!SizeOf(h) <= S!TailOf(h)
             /\ start # S!nullptr /\ start + LIST_HEAD <= h /\ S!TailOf(h) + SEG_TAIL <= brk
             /\ \A k \in S!Live : h < k => S!TailOf(h) + SEG_TAIL <= k
        /\ DOMAIN tail = {S!TailOf(h) : h \in S!Live}
    BY S!Spans, Constants DEF S!LayoutAssumption, S!ClientAssumption
  <2>2. QED
    BY <2>1 DEF Segs, Size, TailOf, S!Live, S!SizeOf, S!TailOf
<1>2. brk \in Nat /\ (start # S!nullptr => brk <= BreakLimit)
  BY DEF S!IInv, S!TypeOK, S!BreakBounded
<1>3. QED
  BY <1>1, <1>2, Constants DEF Layout, EndOf, S!nullptr, S!Aligned

(* The place find_free_seg has found for a call. *)
PlaceGood ==
  call # S!NoCall =>
    /\ call.new_a \in Nat \ {0} /\ call.new_a \notin Segs /\ call.new_a % ALIGNMENT = 0
    /\ start # nullptr /\ start + LIST_HEAD <= call.new_a
    /\ call.new_a + SEG_HEAD <= BreakLimit

(* It follows from the same invariant.                                     *)
LEMMA PlaceHolds == S!IInv /\ S!BreakBounded => PlaceGood
<1> SUFFICES ASSUME S!IInv, S!BreakBounded, call # S!NoCall
             PROVE  /\ call.new_a \in Nat \ {0} /\ call.new_a \notin Segs
                    /\ call.new_a % ALIGNMENT = 0
                    /\ start # nullptr /\ start + LIST_HEAD <= call.new_a
                    /\ call.new_a + SEG_HEAD <= BreakLimit
  BY DEF PlaceGood
<1>1. /\ call.new_a \in Nat \ {0} /\ call.new_a \notin S!Live /\ S!Aligned(call.new_a)
      /\ S!Base <= call.new_a /\ call.new_a + S!TotalSize(call.size) <= end_addr
      /\ start # S!nullptr
  BY S!PlaceFacts, Constants DEF S!LayoutAssumption, S!ClientAssumption
<1>2. call.size \in Nat /\ brk \in Nat /\ end_addr \in Nat /\ end_addr <= brk
  BY <1>1, Constants DEF S!IInv, S!TypeOK, S!ArenaBacked, Sizes
<1>3. /\ S!TotalSize(call.size) = SEG_HEAD + S!round_up(call.size, ALIGNMENT) + SEG_TAIL
      /\ S!round_up(call.size, ALIGNMENT) \in Nat
  BY <1>2, S!RoundUp, Constants DEF S!LayoutAssumption, S!ClientAssumption, S!TotalSize
<1>4. brk <= BreakLimit
  BY <1>1 DEF S!BreakBounded
<1>5. call.new_a + SEG_HEAD <= BreakLimit
  BY <1>1, <1>2, <1>3, <1>4, Constants
<1>6. QED
  BY <1>1, <1>5 DEF S!Base, S!Live, S!Aligned, S!nullptr, nullptr, Segs

(* Both, after a step.                                                     *)
LEMMA LayoutNext == S!IInv' /\ S!BreakBounded' => Layout'
BY LayoutHolds, PTL

(* The place, after a step.                                                *)
LEMMA PlaceNext == S!IInv' /\ S!BreakBounded' => PlaceGood'
BY PlaceHolds, PTL

-----------------------------------------------------------------------------
(***************************************************************************)
(* The calls.  The two models keep the same variables of a call, except    *)
(* that the list's place is a header and the heap's a user address.        *)
(***************************************************************************)

(* What the abstract heap sees of a call.                                  *)
LEMMA Fields ==
  ASSUME Typed, NEW t \in Threads
  PROVE  /\ Requests[t].op = req[t].op /\ Requests[t].ptr = req[t].ptr
         /\ Requests[t].size = req[t].size /\ Requests[t].old_size = req[t].old_size
         /\ Requests[t].new_a = req[t].new_a /\ Requests[t].result = req[t].result
         /\ Requests[t].trust = req[t].trust
         /\ Requests[t].place = IF req[t].place = nullptr THEN nullptr
                                ELSE req[t].place + SEG_HEAD
BY DEF Requests, UserPlace, Request, Typed

(* A new request.                                                          *)
LEMMA SetRequest ==
  ASSUME Typed, NEW t \in Threads, NEW r \in Request, r.place = nullptr,
         req' = [req EXCEPT ![t] = r]
  PROVE  Requests' = [Requests EXCEPT ![t] = r] /\ req' \in [Threads -> Request]
<1>1. UserPlace(r) = r
  BY DEF UserPlace, Request
<1>2. QED
  BY <1>1 DEF Requests, Typed

(* The pointer is forgotten.                                               *)
LEMMA SetPtr ==
  ASSUME Typed, NEW t \in Threads, NEW v \in Nat, req' = [req EXCEPT ![t].ptr = v]
  PROVE  Requests' = [Requests EXCEPT ![t].ptr = v] /\ req' \in [Threads -> Request]
BY DEF Requests, UserPlace, Request, Typed

(* The result is known.                                                    *)
LEMMA SetResult ==
  ASSUME Typed, NEW t \in Threads, NEW v \in Nat, req' = [req EXCEPT ![t].result = v]
  PROVE  Requests' = [Requests EXCEPT ![t].result = v] /\ req' \in [Threads -> Request]
BY DEF Requests, UserPlace, Request, Typed

(* The new address is known.                                               *)
LEMMA SetNew ==
  ASSUME Typed, NEW t \in Threads, NEW v \in Nat, req' = [req EXCEPT ![t].new_a = v]
  PROVE  Requests' = [Requests EXCEPT ![t].new_a = v] /\ req' \in [Threads -> Request]
BY DEF Requests, UserPlace, Request, Typed

(* The old size is known ...                                               *)
LEMMA SetOld ==
  ASSUME Typed, NEW t \in Threads, NEW v \in Sizes, req' = [req EXCEPT ![t].old_size = v]
  PROVE  Requests' = [Requests EXCEPT ![t].old_size = v] /\ req' \in [Threads -> Request]
BY DEF Requests, UserPlace, Request, Typed

(* ... and with it the result.                                             *)
LEMMA SetOldResult ==
  ASSUME Typed, NEW t \in Threads, NEW v \in Sizes, NEW w \in Nat,
         req' = [req EXCEPT ![t].old_size = v, ![t].result = w]
  PROVE  /\ Requests' = [Requests EXCEPT ![t].old_size = v, ![t].result = w]
         /\ req' \in [Threads -> Request]
BY DEF Requests, UserPlace, Request, Typed

(* The place is known: a header, and behind it the user's address.         *)
LEMMA SetPlace ==
  ASSUME Typed, NEW t \in Threads, NEW v \in Nat \ {0}, req' = [req EXCEPT ![t].place = v]
  PROVE  /\ Requests' = [Requests EXCEPT ![t].place = v + SEG_HEAD]
         /\ req' \in [Threads -> Request]
BY DEF Requests, UserPlace, Request, Typed, nullptr

(* malloc's steps in the list.                                             *)
LEMMA MallocControl ==
  ASSUME Typed, NEW t \in Threads, NEW p \in Nat
  PROVE  /\ p # 0 /\ FoundPlace(t, p) =>
              P!FoundPlace(t, p + SEG_HEAD) /\ req' \in [Threads -> Request]
         /\ NoPlace(t) => P!NoPlace(t) /\ req' \in [Threads -> Request]
         /\ EntryAdded(t, p) => P!EntryAdded(t, p) /\ req' \in [Threads -> Request]
<1>1. p # 0 /\ FoundPlace(t, p) => P!FoundPlace(t, p + SEG_HEAD) /\ req' \in [Threads -> Request]
  BY SetPlace DEF FoundPlace, P!FoundPlace, At, P!At, Goto, P!Goto, ControlElsewhere,
     P!ControlElsewhere
<1>2. NoPlace(t) => P!NoPlace(t) /\ req' \in [Threads -> Request]
  BY DEF NoPlace, P!NoPlace, At, P!At, Goto, P!Goto, ControlElsewhere,
     P!ControlElsewhere, Requests, Typed
<1>3. EntryAdded(t, p) => P!EntryAdded(t, p) /\ req' \in [Threads -> Request]
  BY SetNew DEF EntryAdded, P!EntryAdded, At, P!At, Goto, P!Goto, ControlElsewhere,
     P!ControlElsewhere
<1>4. QED
  BY <1>1, <1>2, <1>3

(* calloc's zeroing and the end of free.                                   *)
LEMMA ZeroFreeControl ==
  ASSUME Typed, NEW t \in Threads
  PROVE  /\ MemZeroed(t) => P!MemZeroed(t) /\ req' \in [Threads -> Request]
         /\ SegmentRemoved(t) => P!SegmentRemoved(t) /\ req' \in [Threads -> Request]
<1>1. req[t].new_a \in Nat
  BY DEF Typed, Request
<1>2. ASSUME MemZeroed(t)
      PROVE  P!MemZeroed(t) /\ req' \in [Threads -> Request]
  <2>1. req' = [req EXCEPT ![t].result = req[t].new_a]
    BY <1>2 DEF MemZeroed, Result
  <2>2. /\ Requests' = [Requests EXCEPT ![t].result = req[t].new_a]
        /\ req' \in [Threads -> Request]
    BY <1>1, <2>1, SetResult
  <2>3. P!Result(t, Requests[t].new_a)
    BY <2>2, Fields DEF P!Result
  <2>4. QED
    BY <1>2, <2>2, <2>3 DEF MemZeroed, P!MemZeroed, At, P!At, Goto, P!Goto, ControlElsewhere,
       P!ControlElsewhere
<1>3. SegmentRemoved(t) => P!SegmentRemoved(t) /\ req' \in [Threads -> Request]
  BY SetPtr DEF SegmentRemoved, P!SegmentRemoved, At, P!At, Goto, P!Goto, ControlElsewhere,
     P!ControlElsewhere, nullptr, P!nullptr
<1>4. QED
  BY <1>2, <1>3

(* realloc's steps.                                                        *)
LEMMA ReallocControl ==
  ASSUME Typed, NEW t \in Threads
  PROVE  /\ SegmentShrunk(t) => P!SegmentShrunk(t) /\ req' \in [Threads -> Request]
         /\ SegmentExpanded(t) => P!SegmentExpanded(t) /\ req' \in [Threads -> Request]
         /\ NoRoom(t) => P!NoRoom(t) /\ req' \in [Threads -> Request]
         /\ MemCopied(t) => P!MemCopied(t) /\ req' \in [Threads -> Request]
<1>1. req[t].new_a \in Nat /\ req[t].ptr \in Nat
  BY DEF Typed, Request
<1>2. ASSUME SegmentShrunk(t)
      PROVE  P!SegmentShrunk(t) /\ req' \in [Threads -> Request]
  <2>1. req' = [req EXCEPT ![t].result = req[t].ptr]
    BY <1>2 DEF SegmentShrunk, Result
  <2>2. /\ Requests' = [Requests EXCEPT ![t].result = req[t].ptr]
        /\ req' \in [Threads -> Request]
    BY <1>1, <2>1, SetResult
  <2>3. P!Result(t, Requests[t].ptr)
    BY <2>2, Fields DEF P!Result
  <2>4. QED
    BY <1>2, <2>2, <2>3 DEF SegmentShrunk, P!SegmentShrunk, At, P!At, Goto, P!Goto,
       ControlElsewhere, P!ControlElsewhere
<1>3. ASSUME SegmentExpanded(t)
      PROVE  P!SegmentExpanded(t) /\ req' \in [Threads -> Request]
  <2>1. req' = [req EXCEPT ![t].result = req[t].ptr]
    BY <1>3 DEF SegmentExpanded, Result
  <2>2. /\ Requests' = [Requests EXCEPT ![t].result = req[t].ptr]
        /\ req' \in [Threads -> Request]
    BY <1>1, <2>1, SetResult
  <2>3. P!Result(t, Requests[t].ptr)
    BY <2>2, Fields DEF P!Result
  <2>4. QED
    BY <1>3, <2>2, <2>3 DEF SegmentExpanded, P!SegmentExpanded, At, P!At, Goto, P!Goto,
       ControlElsewhere, P!ControlElsewhere
<1>4. NoRoom(t) => P!NoRoom(t) /\ req' \in [Threads -> Request]
  BY DEF NoRoom, P!NoRoom, At, P!At, Goto, P!Goto, ControlElsewhere,
     P!ControlElsewhere, Requests, Typed
<1>5. ASSUME MemCopied(t)
      PROVE  P!MemCopied(t) /\ req' \in [Threads -> Request]
  <2>1. req' = [req EXCEPT ![t].result = req[t].new_a]
    BY <1>5 DEF MemCopied, Result
  <2>2. /\ Requests' = [Requests EXCEPT ![t].result = req[t].new_a]
        /\ req' \in [Threads -> Request]
    BY <1>1, <2>1, SetResult
  <2>3. P!Result(t, Requests[t].new_a)
    BY <2>2, Fields DEF P!Result
  <2>4. QED
    BY <1>5, <2>2, <2>3 DEF MemCopied, P!MemCopied, At, P!At, Goto, P!Goto, ControlElsewhere,
       P!ControlElsewhere
<1>6. QED
  BY <1>2, <1>3, <1>4, <1>5

(* get_segment_size.                                                       *)
LEMMA SizeControl ==
  ASSUME Typed, NEW t \in Threads, NEW n \in Sizes, SizeKnown(t, n)
  PROVE  P!SizeKnown(t, n) /\ req' \in [Threads -> Request]
<1>1. PICK w \in Nat : w = req[t].ptr
  BY DEF Typed, Request
<1>2. P!At(t, "r_size") /\ P!ControlElsewhere /\ Requests[t].size = req[t].size
      /\ Requests[t].ptr = req[t].ptr
  BY Fields DEF SizeKnown, At, P!At, ControlElsewhere, P!ControlElsewhere
<1>3. CASE /\ req[t].size = n /\ Goto(t, "ret")
           /\ req' = [req EXCEPT ![t].old_size = n, ![t].result = req[t].ptr]
  <2>1. /\ Requests' = [Requests EXCEPT ![t].old_size = n, ![t].result = w]
        /\ req' \in [Threads -> Request]
    <3>1. req' = [req EXCEPT ![t].old_size = n, ![t].result = w]
      BY <1>1, <1>3
    <3>2. QED
      BY <3>1, SetOldResult
  <2>2. QED
    BY <1>1, <1>2, <1>3, <2>1 DEF P!SizeKnown, Goto, P!Goto
<1>4. CASE /\ \/ req[t].size < n /\ Goto(t, "s_lock")
              \/ req[t].size > n /\ Goto(t, "e_lock")
           /\ req' = [req EXCEPT ![t].old_size = n]
  <2>1. /\ Requests' = [Requests EXCEPT ![t].old_size = n]
        /\ req' \in [Threads -> Request]
    BY <1>4, SetOld
  <2>2. QED
    BY <1>2, <1>4, <2>1 DEF P!SizeKnown, Goto, P!Goto
<1>5. QED
  BY <1>3, <1>4 DEF SizeKnown

(* The lock.                                                               *)
LEMMA LockControl ==
  ASSUME Typed, NEW t \in Threads, TakeLock(t)
  PROVE  P!TakeLock(t) /\ req' = req
BY DEF TakeLock, P!TakeLock, Lock, P!Lock, At, P!At, Goto, P!Goto, Requests

(* The locks are given back.                                               *)
LEMMA UnlockControl ==
  ASSUME Typed, NEW t \in Threads
  PROVE  /\ malloc_unlock(t) => P!malloc_unlock(t) /\ req' \in [Threads -> Request]
         /\ expand_unlock(t) => P!expand_unlock(t) /\ req' \in [Threads -> Request]
         /\ \A x : Unlock(t, x, "ret") /\ UNCHANGED req =>
              /\ P!Unlock(t, x, "ret") /\ UNCHANGED Requests
              /\ req' \in [Threads -> Request]
<1>1. /\ req[t].new_a \in Nat
      /\ Requests[t].new_a = req[t].new_a /\ Requests[t].op = req[t].op
      /\ Requests[t].result = req[t].result
  BY Fields DEF Typed, Request
<1>2. req' = req => Requests' = Requests /\ req' \in [Threads -> Request]
  BY DEF Requests, Typed
<1>3. ASSUME NEW x, NEW y, Unlock(t, x, y) PROVE P!Unlock(t, x, y)
  BY <1>3 DEF Unlock, P!Unlock, At, P!At, Goto, P!Goto
<1>4. Result(t, req[t].new_a) => P!Result(t, Requests[t].new_a) /\ req' \in [Threads -> Request]
  <2> SUFFICES ASSUME Result(t, req[t].new_a)
               PROVE  P!Result(t, Requests[t].new_a) /\ req' \in [Threads -> Request]
    OBVIOUS
  <2>1. req' = [req EXCEPT ![t].result = req[t].new_a]
    BY DEF Result
  <2>2. /\ Requests' = [Requests EXCEPT ![t].result = req[t].new_a]
        /\ req' \in [Threads -> Request]
    BY <1>1, <2>1, SetResult
  <2>3. QED
    BY <1>1, <2>2 DEF P!Result
<1>5. malloc_unlock(t) => P!malloc_unlock(t) /\ req' \in [Threads -> Request]
  BY <1>1, <1>2, <1>3, <1>4 DEF malloc_unlock, P!malloc_unlock, nullptr, P!nullptr
<1>6. expand_unlock(t) => P!expand_unlock(t) /\ req' \in [Threads -> Request]
  BY <1>1, <1>2, <1>3 DEF expand_unlock, P!expand_unlock, nullptr, P!nullptr
<1>7. QED
  BY <1>2, <1>3, <1>5, <1>6

(* No request.                                                             *)
LEMMA NoRequest == /\ NoReq \in Request /\ NoReq.place = nullptr /\ NoTrust \in P!Trust
                   /\ P!NoReq = NoReq /\ P!NoTrust = NoTrust
BY Constants DEF NoReq, NoTrust, P!NoReq, P!NoTrust, P!nullptr, nullptr, Request, P!Trust, P!Bytes,
   P!Sizes, Sizes

(* A call returns.                                                         *)
LEMMA ReturnControl ==
  ASSUME Typed, NEW t \in Threads, Return(t)
  PROVE  P!Return(t) /\ req' \in [Threads -> Request]
<1>1. /\ Requests[t].op = req[t].op /\ Requests[t].result = req[t].result
      /\ Requests[t].ptr = req[t].ptr /\ Requests[t].size = req[t].size
      /\ Requests[t].trust = req[t].trust
  BY Fields
<1>2. req' = [req EXCEPT ![t] = NoReq] /\ Goto(t, "idle")
  BY DEF Return
<1>3. Requests' = [Requests EXCEPT ![t] = NoReq] /\ req' \in [Threads -> Request]
  BY <1>2, NoRequest, SetRequest
<1>4. P!At(t, "ret") /\ UNCHANGED <<lock, status>>
  BY DEF Return, At, P!At
<1>5. P!Goto(t, "idle")
  BY <1>2 DEF Goto, P!Goto
<1>6. \A f, x, v : P!Put(f, x, v) = Put(f, x, v)
  BY DEF P!Put, Put
<1>7. QED
  BY <1>1, <1>3, <1>4, <1>5, <1>6, NoRequest DEF Return, P!Return, nullptr, P!nullptr

(* A client calls.                                                         *)
LEMMA CallControl ==
  ASSUME Typed, P!MTypeOK, NEW t \in Threads,
         NEW op \in {"malloc", "calloc", "free", "realloc"},
         NEW ptr \in Owned(t) \cup {nullptr}, NEW n \in Sizes, NEW entry,
         Call(t, op, ptr, n, entry)
  PROVE  P!Call(t, op, ptr, n, entry) /\ req' \in [Threads -> Request]
<1> DEFINE trust == IF ptr = nullptr THEN NoTrust ELSE held[ptr].trust
           r == [NoReq EXCEPT !.op = op, !.ptr = ptr, !.size = n, !.trust = trust]
<1>1. ptr \in Nat /\ (ptr # nullptr => held[ptr] \in [by : Threads, trust : P!Trust])
  BY DEF Owned, P!MTypeOK, UserAddresses, nullptr
<1>2. trust \in P!Trust
  BY <1>1, NoRequest
<1>3. r \in Request /\ r.place = nullptr
  BY <1>1, <1>2, NoRequest DEF Request
<1>4. req' = [req EXCEPT ![t] = r]
  BY DEF Call
<1> HIDE DEF r, trust
<1>5. Requests' = [Requests EXCEPT ![t] = r] /\ req' \in [Threads -> Request]
  BY <1>3, <1>4, SetRequest
<1>6. r = [P!NoReq EXCEPT !.op = op, !.ptr = ptr, !.size = n,
                          !.trust = IF ptr = P!nullptr THEN P!NoTrust ELSE held[ptr].trust]
  BY NoRequest DEF r, trust, nullptr, P!nullptr
<1>7. P!At(t, "idle") /\ P!Goto(t, entry) /\ held' = P!Drop(held, ptr)
      /\ UNCHANGED <<lock, status>>
  BY DEF Call, At, P!At, Goto, P!Goto, Drop, P!Drop
<1>8. QED
  BY <1>5, <1>6, <1>7 DEF P!Call

(* The four functions.                                                     *)
LEMMA ClientControl ==
  ASSUME Typed, P!MTypeOK, NEW t \in Threads, NEW p \in Owned(t) \cup {nullptr}, NEW n \in Sizes
  PROVE  /\ malloc(t, n) => P!malloc(t, n) /\ req' \in [Threads -> Request]
         /\ calloc(t, n) => P!calloc(t, n) /\ req' \in [Threads -> Request]
         /\ free(t, p) => P!free(t, p) /\ req' \in [Threads -> Request]
         /\ realloc(t, p, n) => P!realloc(t, p, n) /\ req' \in [Threads -> Request]
<1>1. P!nullptr = nullptr
  BY DEF P!nullptr, nullptr
<1>2. ASSUME NEW op \in {"malloc", "calloc", "free", "realloc"}, NEW q \in Owned(t) \cup {nullptr},
             NEW m \in Sizes, NEW entry, Call(t, op, q, m, entry)
      PROVE  P!Call(t, op, q, m, entry) /\ req' \in [Threads -> Request]
  BY <1>2, CallControl
<1>3. malloc(t, n) => P!malloc(t, n) /\ req' \in [Threads -> Request]
  BY <1>1, <1>2 DEF malloc, P!malloc
<1>4. calloc(t, n) => P!calloc(t, n) /\ req' \in [Threads -> Request]
  BY <1>1, <1>2 DEF calloc, P!calloc
<1>5. free(t, p) => P!free(t, p) /\ req' \in [Threads -> Request]
  BY <1>1, <1>2, Constants DEF free, P!free, Sizes
<1>6. realloc(t, p, n) => P!realloc(t, p, n) /\ req' \in [Threads -> Request]
  BY <1>1, <1>2 DEF realloc, P!realloc
<1>7. QED
  BY <1>3, <1>4, <1>5, <1>6

-----------------------------------------------------------------------------
(***************************************************************************)
(* What a call may rely on, in terms of segments.                          *)
(***************************************************************************)

(* The block at p is the segment whose header lies before it.              *)
LEMMA BlockIsSegment ==
  ASSUME Layout, NEW p \in DOMAIN Blocks
  PROVE  /\ HeaderOf(p) \in Segs /\ HeaderOf(p) \in Nat /\ p = HeaderOf(p) + SEG_HEAD
         /\ Blocks[p] = Size(HeaderOf(p)) /\ p \in UserAddresses
<1>1. PICK h \in Segs : p = h + SEG_HEAD
  BY SameState DEF Blocks
<1>2. /\ h \in Nat /\ h % ALIGNMENT = 0 /\ Size(h) \in Nat /\ TailOf(h) \in Nat
      /\ h + SEG_HEAD + Size(h) <= TailOf(h) /\ EndOf(h) <= BreakLimit
  BY DEF Layout
<1>3. HeaderOf(p) = h
  BY <1>1, <1>2, Constants DEF HeaderOf
<1>4. Blocks[p] = Size(h)
  BY <1>3, SameState DEF Blocks, Size
<1>5. p % ALIGNMENT = 0
  <2>1. h \in Int /\ SEG_HEAD \in Int /\ S!Aligned(h) /\ S!Aligned(SEG_HEAD)
    BY <1>2, Constants DEF S!Aligned
  <2>2. S!Aligned(h + SEG_HEAD)
    BY <2>1, Constants, S!AlignedSum DEF S!LayoutAssumption
  <2>3. QED
    BY <1>1, <2>2 DEF S!Aligned
<1>6. p \in 1..BreakLimit
  BY <1>1, <1>2, Constants DEF EndOf
<1>7. QED
  BY <1>1, <1>2, <1>3, <1>4, <1>5, <1>6 DEF UserAddresses

(* Every segment is such a block.                                          *)
LEMMA SegmentIsBlock ==
  ASSUME Layout, NEW h \in Segs
  PROVE  /\ h + SEG_HEAD \in DOMAIN Blocks /\ Blocks[h + SEG_HEAD] = Size(h)
         /\ h + SEG_HEAD \in UserAddresses /\ HeaderOf(h + SEG_HEAD) = h
<1>1. h + SEG_HEAD \in DOMAIN Blocks
  BY SameState DEF Blocks
<1>2. HeaderOf(h + SEG_HEAD) = h
  BY Constants DEF Layout, HeaderOf
<1>3. QED
  BY <1>1, <1>2, BlockIsSegment

(* Blocks and segments are the same, one seen from its user address. *)
BlocksAreSegments ==
  /\ \A p \in DOMAIN Blocks :
       /\ HeaderOf(p) \in Segs /\ HeaderOf(p) \in Nat /\ p = HeaderOf(p) + SEG_HEAD
       /\ Blocks[p] = Size(HeaderOf(p)) /\ p \in UserAddresses
  /\ \A h \in Segs :
       /\ h + SEG_HEAD \in DOMAIN Blocks /\ Blocks[h + SEG_HEAD] = Size(h)
       /\ h + SEG_HEAD \in UserAddresses /\ HeaderOf(h + SEG_HEAD) = h

(* They are, in every layout ...                                           *)
LEMMA BlocksNow == Layout => BlocksAreSegments
BY BlockIsSegment, SegmentIsBlock DEF BlocksAreSegments

(* ... also after a step.                                                  *)
LEMMA BlocksNext == Layout' => BlocksAreSegments'
BY BlocksNow, PTL

(* The blocks of a call, and the sizes it has read.                        *)
LEMMA InCall ==
  ASSUME P!MIInv, Typed, NEW t \in Threads
  PROVE  LET r == req[t] IN
         /\ r.ptr # 0 => r.ptr \in DOMAIN Blocks
         /\ r.new_a # 0 => r.new_a \in DOMAIN Blocks /\ Blocks[r.new_a] = r.size
         /\ pc[t] \in {"m_find", "m_add"} => r.size # 0
         /\ pc[t] = "c_zero" => r.new_a # 0
         /\ pc[t] \in {"f_remove", "r_size"} => r.ptr # 0
         /\ pc[t] = "r_size" => r.size # 0
         /\ pc[t] = "s_shrink" =>
              r.ptr # 0 /\ Blocks[r.ptr] = r.old_size /\ r.size # 0 /\ r.size < r.old_size
         /\ pc[t] = "e_expand" => r.ptr # 0 /\ Blocks[r.ptr] = r.old_size /\ r.old_size < r.size
         /\ pc[t] = "r_copy" => /\ r.ptr # 0 /\ r.new_a # 0 /\ r.ptr # r.new_a
                                /\ Blocks[r.ptr] = r.old_size /\ r.old_size < r.size
<1>1. P!Shape(t) /\ P!SizesKnown(t) /\ P!EveryBlockAccounted
  BY DEF P!MIInv, P!CallOK
<1>2. /\ req[t].ptr # 0 => req[t].ptr \in DOMAIN Blocks
      /\ req[t].new_a # 0 => req[t].new_a \in DOMAIN Blocks
  BY <1>1, Fields DEF P!EveryBlockAccounted, P!InFlight, P!nullptr
<1>3. req[t].size \in Nat
  BY Constants DEF Typed, Request
<1>4. /\ req[t].new_a # 0 => Blocks[req[t].new_a] = req[t].size
      /\ pc[t] \in {"s_lock", "s_shrink"} =>
           Blocks[req[t].ptr] = req[t].old_size /\ req[t].size < req[t].old_size
      /\ /\ req[t].op = "realloc" /\ req[t].result = 0
         /\ pc[t] \in {"e_lock", "e_expand", "e_unlock", "r_copy"}
         => Blocks[req[t].ptr] = req[t].old_size /\ req[t].old_size < req[t].size
  BY <1>1, Fields DEF P!SizesKnown, P!nullptr
<1>5. /\ pc[t] \in {"m_find", "m_add"} => req[t].size # 0
      /\ pc[t] = "c_zero" => req[t].new_a # 0
      /\ pc[t] = "r_copy" => /\ req[t].op = "realloc" /\ req[t].result = 0
                             /\ req[t].ptr # 0 /\ req[t].new_a # 0 /\ req[t].ptr # req[t].new_a
      /\ pc[t] \in {"f_remove", "r_size"} => req[t].ptr # 0
      /\ pc[t] \in {"r_size", "s_shrink", "e_expand"} =>
           /\ req[t].size # 0 /\ req[t].op = "realloc" /\ req[t].result = 0 /\ req[t].ptr # 0
  BY <1>1, <1>3, Fields DEF P!Shape, P!nullptr, P!Allocating, P!Sizing
<1>6. QED
  BY <1>2, <1>4, <1>5

(* One thread at a time is in the list.                                    *)
LEMMA Alone ==
  ASSUME P!MIInv, NEW t \in Threads, pc[t] \in Critical
  PROVE  \A u \in Threads \ {t} : pc[u] # "m_add"
BY DEF P!MIInv, P!LockDiscipline, P!Critical, Critical

-----------------------------------------------------------------------------
(***************************************************************************)
(* The arena.                                                              *)
(***************************************************************************)

Arena == [1..BreakLimit -> Tags]

(* Paint changes the bytes from a on only.                                 *)
LEMMA Painted ==
  ASSUME NEW b \in Arena, NEW a \in Nat, NEW n \in Nat, NEW v \in Tags
  PROVE  /\ Paint(b, a, n, v) \in Arena
         /\ \A i \in 1..BreakLimit :
              Paint(b, a, n, v)[i] = IF a <= i /\ i < a + n THEN v ELSE b[i]
BY DEF Arena, Paint

(* The tags.                                                               *)
LEMMA TagsAre == Junk \in Tags /\ Zero \in Tags /\ Struct \in Tags /\ Threads \subseteq Tags
BY DEF Tags

(* The address belongs to the segment at h, before or after the step. *)
Within(h, a) ==
  h <= a /\ ((h \in Segs /\ a < EndOf(h)) \/ (h \in Segs' /\ a < EndOf(h)'))

(* The step is the business of one segment: it leaves the others and their  *)
(* bytes alone.                                                            *)
OnlyAt(h) ==
  /\ h \in Nat /\ h \in Segs \cup Segs' /\ Segs' \ {h} = Segs \ {h} /\ start' = start
  /\ \A k \in Segs \ {h} : Size(k)' = Size(k)
  /\ bytes' \in Arena
  /\ \A a \in 1..BreakLimit : ~ Within(h, a) => bytes'[a] = bytes[a]

(* No other segment has a byte within h, nor has the list header.          *)
LEMMA OthersOutside ==
  ASSUME Layout, Layout', NEW h, OnlyAt(h)
  PROVE  /\ \A k \in Segs \ {h} :
              /\ k \in Segs' /\ k \in Nat /\ Size(k)' = Size(k) /\ TailOf(k)' = TailOf(k)
              /\ EndOf(k)' = EndOf(k)
              /\ \A a \in Nat : k <= a /\ a < EndOf(k) => ~ Within(h, a)
         /\ \A a \in Nat : InListHead(a) => ~ Within(h, a)
         /\ \A a \in Nat : InListHead(a)' <=> InListHead(a)
<1>1. ASSUME NEW k \in Segs \ {h}
      PROVE  /\ k \in Segs' /\ k \in Nat /\ Size(k)' = Size(k) /\ TailOf(k)' = TailOf(k)
             /\ EndOf(k)' = EndOf(k) /\ EndOf(k) \in Nat
  <2>1. k \in Segs' /\ k \in Nat /\ Size(k)' = Size(k) /\ TailOf(k) \in Nat
    BY <1>1 DEF OnlyAt, Layout
  <2>2. TailOf(k)' = S!TailAt(k, Size(k)) /\ TailOf(k) = S!TailAt(k, Size(k))
    <3>1. TailOf(k)' = S!TailAt(k, Size(k)')
      BY <2>1 DEF Layout
    <3>2. QED
      BY <2>1, <3>1, <1>1 DEF Layout
  <2>3. QED
    BY <2>1, <2>2, Constants DEF EndOf
<1>2. ASSUME NEW k \in Segs \ {h}, NEW a \in Nat, k <= a, a < EndOf(k), Within(h, a)
      PROVE  FALSE
  <2>1. h \in Nat /\ k \in Nat /\ h # k /\ EndOf(k) \in Nat
    BY <1>1, <1>2 DEF OnlyAt
  <2>2. CASE h \in Segs /\ a < EndOf(h)
    BY <1>2, <2>1, <2>2, Constants DEF Layout, Within, EndOf
  <2>3. CASE h \in Segs' /\ a < EndOf(h)'
    <3>1. /\ h < k => EndOf(h)' <= k
          /\ k < h => EndOf(k)' <= h
      BY <1>1, <1>2, <2>3 DEF Layout
    <3>2. EndOf(h)' \in Nat
      BY <2>3, Constants DEF Layout, EndOf
    <3>3. QED
      BY <1>1, <1>2, <2>1, <2>3, <3>1, <3>2 DEF Within
  <2>4. QED
    BY <1>2, <2>2, <2>3 DEF Within
<1>3. ASSUME NEW a \in Nat PROVE InListHead(a) => ~ Within(h, a)
  <2>1. h \in Nat /\ start \in Nat /\ start + LIST_HEAD <= h
    BY DEF OnlyAt, Layout
  <2>2. QED
    BY <2>1, Constants DEF InListHead, Within
<1>4. \A a \in Nat : InListHead(a)' <=> InListHead(a)
  BY DEF OnlyAt, InListHead
<1>5. QED
  BY <1>1, <1>2, <1>3, <1>4

(* The arena is intact after a step that leaves that segment intact, and   *)
(* junk where it has left.                                                 *)
LEMMA OneSegment ==
  ASSUME Layout, Layout', ArenaIntact, NEW h, OnlyAt(h),
         h \in Segs' => SegmentIntact(h)',
         \A a \in 1..BreakLimit :
           Within(h, a) /\ (h \in Segs' => EndOf(h)' <= a) => bytes'[a] = Junk
  PROVE  ArenaIntact'
<1>1. BreakLimit \in Nat /\ h \in Nat
  BY Constants DEF OnlyAt
<1>2. ASSUME NEW k \in Segs', k # h PROVE SegmentIntact(k)'
  <2>1. k \in Segs \ {h}
    BY <1>2 DEF OnlyAt
  <2>2. SegmentIntact(k)
    BY <2>1 DEF ArenaIntact
  <2>3. /\ k \in Nat /\ Size(k)' = Size(k) /\ TailOf(k)' = TailOf(k) /\ EndOf(k)' = EndOf(k)
        /\ Size(k) \in Nat /\ TailOf(k) \in Nat /\ EndOf(k) \in Nat
        /\ k + SEG_HEAD + Size(k) <= TailOf(k) /\ TailOf(k) <= EndOf(k)
    BY <2>1, OthersOutside, Constants DEF Layout, EndOf
  <2>4. \A a \in 1..BreakLimit : k <= a /\ a < EndOf(k) => bytes'[a] = bytes[a]
    <3>1. \A a \in Nat : k <= a /\ a < EndOf(k) => ~ Within(h, a)
      BY <2>1, OthersOutside
    <3>2. QED
      BY <1>1, <3>1 DEF OnlyAt
  <2>5. SEG_HEAD \in Nat
    BY Constants
  <2>6. \A a \in 1..BreakLimit :
          /\ k <= a /\ a < k + SEG_HEAD => bytes'[a] = Struct
          /\ k + SEG_HEAD + Size(k) <= a /\ a < TailOf(k) => bytes'[a] = Junk
          /\ TailOf(k) <= a /\ a < EndOf(k) => bytes'[a] = Struct
    BY <1>1, <2>2, <2>3, <2>4, <2>5 DEF SegmentIntact
  <2>7. QED
    BY <2>3, <2>6 DEF SegmentIntact
<1>3. ASSUME NEW a \in 1..BreakLimit
      PROVE  InListHead(a)' => bytes'[a] = Struct
  BY <1>1, OthersOutside DEF OnlyAt, ArenaIntact
<1>4. ASSUME NEW a \in 1..BreakLimit, ~ InListHead(a)', \A k \in Segs' : a < k \/ EndOf(k)' <= a
      PROVE  bytes'[a] = Junk
  <2>1. CASE Within(h, a)
    BY <1>1, <1>4, <2>1 DEF Within
  <2>2. CASE ~ Within(h, a)
    <3>1. \A k \in Segs : a < k \/ EndOf(k) <= a
      <4>1. ASSUME NEW k \in Segs PROVE a < k \/ EndOf(k) <= a
        <5>1. CASE k = h
          BY <1>1, <2>2, <5>1, Constants DEF Within, Layout, EndOf
        <5>2. CASE k # h
          BY <1>4, <5>2, OthersOutside
        <5>3. QED
          BY <5>1, <5>2
      <4>2. QED
        BY <4>1
    <3>2. ~ InListHead(a)
      BY <1>1, <1>4, OthersOutside
    <3>3. QED
      BY <2>2, <3>1, <3>2 DEF OnlyAt, ArenaIntact
  <2>3. QED
    BY <2>1, <2>2
<1>5. QED
  BY <1>2, <1>3, <1>4 DEF ArenaIntact

(* The contents of the block at p, byte by byte. *)
UserBytes(p) ==
  [i \in 1..MaxSize |-> IF p \in DOMAIN Blocks /\ i <= Blocks[p] THEN bytes[p + i - 1] ELSE Junk]

(* Such a step changes the contents of one block only.                     *)
LEMMA ContentsElsewhere ==
  ASSUME Layout, Layout', NEW h, OnlyAt(h), h + SEG_HEAD \in UserAddresses
  PROVE  Contents' = [Contents EXCEPT ![h + SEG_HEAD] = UserBytes(h + SEG_HEAD)']
<1>1. BlocksAreSegments /\ BlocksAreSegments' /\ MaxSize \in Nat /\ SEG_HEAD \in Nat \ {0}
      /\ BreakLimit \in Nat /\ SEG_TAIL \in Nat \ {0} /\ h \in Nat
  BY BlocksNow, BlocksNext, Constants DEF OnlyAt
<1>2. ASSUME NEW q \in UserAddresses, q # h + SEG_HEAD PROVE UserBytes(q)' = UserBytes(q)
  <2>1. CASE q \in DOMAIN Blocks
    <3>1. PICK k \in Segs : k = HeaderOf(q) /\ k \in Nat /\ q = k + SEG_HEAD /\ Blocks[q] = Size(k)
      BY <1>1, <2>1 DEF BlocksAreSegments
    <3>2. k # h
      BY <1>2, <3>1
    <3>3. /\ k \in Segs' /\ Size(k)' = Size(k)
          /\ \A a \in Nat : k <= a /\ a < EndOf(k) => ~ Within(h, a)
      BY <3>2, OthersOutside
    <3>4. q \in DOMAIN Blocks' /\ Blocks'[q] = Blocks[q]
      BY <1>1, <3>1, <3>3 DEF BlocksAreSegments
    <3>5. /\ Size(k) \in Nat /\ TailOf(k) \in Nat /\ k + SEG_HEAD + Size(k) <= TailOf(k)
          /\ EndOf(k) <= BreakLimit /\ EndOf(k) = TailOf(k) + SEG_TAIL
      BY <3>1 DEF Layout, EndOf
    <3>6. ASSUME NEW i \in 1..MaxSize, i <= Blocks[q] PROVE bytes'[q + i - 1] = bytes[q + i - 1]
      <4>1. q + i - 1 \in 1..BreakLimit /\ k <= q + i - 1 /\ q + i - 1 < EndOf(k)
        <5>1. i \in Nat /\ i >= 1 /\ i <= Size(k)
          <6>1. MaxSize \in Nat
            BY <1>1
          <6>2. i \in Nat /\ i >= 1
            BY <6>1
          <6>3. i <= Size(k)
            BY <3>1, <3>6
          <6>4. QED
            BY <6>2, <6>3
        <5>2. QED
          BY <1>1, <3>1, <3>5, <5>1
      <4>2. ~ Within(h, q + i - 1)
        BY <1>1, <3>3, <4>1
      <4>3. QED
        BY <4>1, <4>2 DEF OnlyAt
    <3>7. QED
      BY <3>4, <3>6, <2>1 DEF UserBytes
  <2>2. CASE q \notin DOMAIN Blocks
    <3>1. q \notin DOMAIN Blocks'
      <4>1. SUFFICES ASSUME q \in DOMAIN Blocks' PROVE FALSE
        OBVIOUS
      <4>2. PICK k \in Segs' : k \in Nat /\ q = k + SEG_HEAD
        BY <1>1, <4>1 DEF BlocksAreSegments
      <4>3. k \in Segs
        BY <1>2, <4>2 DEF OnlyAt
      <4>4. QED
        BY <1>1, <2>2, <4>2, <4>3 DEF BlocksAreSegments
    <3>2. QED
      BY <2>2, <3>1 DEF UserBytes
  <2>3. QED
    BY <2>1, <2>2
<1>3. Contents = [q \in UserAddresses |-> UserBytes(q)]
  BY DEF Contents, UserBytes
<1>4. Contents' = [q \in UserAddresses |-> UserBytes(q)']
  BY DEF Contents, UserBytes
<1>5. QED
  BY <1>2, <1>3, <1>4

(* A step that writes only user bytes of the segment at h.                 *)
LEMMA UserBytesOnly ==
  ASSUME Layout, Layout', ArenaIntact, NEW h \in Segs, UNCHANGED list, bytes' \in Arena,
         \A a \in 1..BreakLimit :
           a < h + SEG_HEAD \/ h + SEG_HEAD + Size(h) <= a => bytes'[a] = bytes[a]
  PROVE  /\ ArenaIntact' /\ Blocks' = Blocks
         /\ Contents' = [Contents EXCEPT ![h + SEG_HEAD] =
              [i \in 1..MaxSize |-> IF i <= Size(h) THEN bytes'[h + SEG_HEAD + i - 1] ELSE Junk]]
<1>1. UNCHANGED <<start, head, tail, call>> /\ Segs' = Segs
  BY DEF list, Segs
<1>2. /\ h \in Nat /\ Size(h) \in Nat /\ TailOf(h) \in Nat /\ h + SEG_HEAD + Size(h) <= TailOf(h)
      /\ SEG_HEAD \in Nat /\ SEG_TAIL \in Nat \ {0} /\ BreakLimit \in Nat
      /\ EndOf(h) = TailOf(h) + SEG_TAIL
  BY Constants DEF Layout, EndOf
<1>3. /\ \A k : Size(k)' = Size(k) /\ TailOf(k)' = TailOf(k) /\ EndOf(k)' = EndOf(k)
      /\ Blocks' = Blocks
  BY <1>1 DEF Size, TailOf, EndOf, Blocks, L!Live
<1>4. OnlyAt(h)
  BY <1>1, <1>2, <1>3 DEF OnlyAt, Within
<1>5. SegmentIntact(h)'
  <2>1. SegmentIntact(h)
    BY DEF ArenaIntact
  <2>2. \A a \in 1..BreakLimit :
          /\ h <= a /\ a < h + SEG_HEAD => bytes'[a] = Struct
          /\ h + SEG_HEAD + Size(h) <= a /\ a < TailOf(h) => bytes'[a] = Junk
          /\ TailOf(h) <= a /\ a < EndOf(h) => bytes'[a] = Struct
    BY <1>2, <2>1 DEF SegmentIntact
  <2>3. QED
    BY <1>3, <2>2 DEF SegmentIntact
<1>6. ArenaIntact'
  <2>1. \A a \in 1..BreakLimit : ~ (Within(h, a) /\ (h \in Segs' => EndOf(h)' <= a))
    BY <1>1, <1>2, <1>3 DEF Within
  <2>2. QED
    BY <1>4, <1>5, <2>1, OneSegment
<1>7. /\ h + SEG_HEAD \in UserAddresses /\ h + SEG_HEAD \in DOMAIN Blocks
      /\ Blocks[h + SEG_HEAD] = Size(h)
  BY BlocksNow DEF BlocksAreSegments
<1>8. UserBytes(h + SEG_HEAD)' =
        [i \in 1..MaxSize |-> IF i <= Size(h) THEN bytes'[h + SEG_HEAD + i - 1] ELSE Junk]
  BY <1>3, <1>7 DEF UserBytes
<1>9. QED
  BY <1>3, <1>4, <1>6, <1>7, <1>8, ContentsElsewhere

-----------------------------------------------------------------------------
(***************************************************************************)
(* The steps, one lemma each: the invariant is kept, and the step is one   *)
(* of Methods.                                                             *)
(***************************************************************************)

(* What a step must show. *)
Refines == [P!MNext]_(P!mvars)

(* The invariant, in its parts.                                            *)
LEMMA Known ==
  ASSUME AInv
  PROVE  /\ S!IInv /\ S!BreakBounded /\ P!MIInv /\ P!MTypeOK
         /\ Typed /\ PlaceKept /\ ArenaIntact /\ Layout /\ BlocksAreSegments
         /\ pc \in [Threads -> Places] /\ bytes \in Arena /\ MaxSize \in Nat
         /\ \A p \in DOMAIN Blocks : Blocks[p] \in Nat /\ Blocks[p] # 0 /\ Blocks[p] <= MaxSize
<1>1. Layout /\ BlocksAreSegments
  BY LayoutHolds, BlocksNow DEF AInv
<1>2. P!MTypeOK
  BY DEF AInv, P!MIInv
<1>3. pc \in [Threads -> Places]
  BY <1>2 DEF P!MTypeOK, P!Places, Places
<1>4. MaxSize \in Nat
  BY Constants
<1>5. \A p \in DOMAIN Blocks : Blocks[p] \in Nat /\ Blocks[p] # 0 /\ Blocks[p] <= MaxSize
  BY <1>2, <1>4 DEF P!MTypeOK, P!Sizes
<1>6. QED
  BY <1>1, <1>2, <1>3, <1>4, <1>5 DEF AInv, Typed, Arena

(* The parts, put together again.                                          *)
LEMMA Together ==
  ASSUME AInv, S!IInv', S!BreakBounded', [P!MNext]_(P!mvars),
         req' \in [Threads -> Request], bytes' \in Arena, PlaceKept', ArenaIntact'
  PROVE  AInv' /\ Refines
<1>1. P!MIInv'
  BY CallsNext DEF AInv
<1>2. AInv'
  BY <1>1 DEF AInv, Typed, Arena
<1>3. QED
  BY <1>2 DEF Refines

(* The list does not change.                                               *)
LEMMA ListStays ==
  ASSUME AInv, UNCHANGED <<list, status>>
  PROVE  S!IInv' /\ S!BreakBounded' /\ Layout' /\ UNCHANGED <<Blocks, start # nullptr>>
<1>1. UNCHANGED S!vars
  BY DEF list, S!vars
<1>2. S!IInv' /\ S!BreakBounded'
  BY <1>1, ListNext DEF AInv
<1>3. UNCHANGED <<Blocks, start # nullptr>>
  BY DEF list, Blocks, L!Live
<1>4. QED
  BY <1>2, <1>3, LayoutNext

(* Nor does the arena.                                                     *)
LEMMA HeapStays ==
  ASSUME AInv, UNCHANGED <<list, status, bytes>>
  PROVE  /\ S!IInv' /\ S!BreakBounded' /\ ArenaIntact' /\ bytes' \in Arena
         /\ P!HeapUntouched
<1>1. S!IInv' /\ S!BreakBounded' /\ UNCHANGED <<Blocks, start # nullptr>>
  BY ListStays
<1>2. Contents' = Contents
  BY <1>1 DEF Contents
<1>3. ArenaIntact'
  BY Known DEF list, ArenaIntact, SegmentIntact, InListHead, Segs, Size, TailOf, EndOf
<1>4. QED
  BY <1>1, <1>2, <1>3, Known DEF P!HeapUntouched

(* t is the only one that goes anywhere, and not to add_entry. *)
Moves(t) ==
  /\ pc'[t] # "m_add"
  /\ \A u \in Threads \ {t} : pc'[u] = pc[u] /\ req'[u] = req[u]

(* Places are kept by such a step.                                         *)
LEMMA MovesKeepPlaces ==
  ASSUME AInv, NEW t \in Threads, Moves(t), call' = call
  PROVE  PlaceKept'
BY Known DEF Moves, PlaceKept

(* A step of a call that leaves the heap alone.                            *)
LEMMA QuietStep ==
  ASSUME AInv, NEW t \in Threads, Moves(t), UNCHANGED <<list, status, bytes>>,
         P!HeapUntouched => P!MNext, req' \in [Threads -> Request]
  PROVE  AInv' /\ Refines
<1>1. PlaceKept'
  BY MovesKeepPlaces DEF list
<1>2. QED
  BY <1>1, HeapStays, Together

(* Unlocking, and returning to the client.                                 *)
LEMMA ControlInv ==
  ASSUME AInv, NEW t \in Threads, ControlStep(t), ListUntouched, UNCHANGED bytes
  PROVE  AInv' /\ Refines
<1>1. UNCHANGED status /\ Moves(t)
  BY Known DEF ControlStep, malloc_unlock, expand_unlock, Unlock, Return, Goto, Result, Moves,
     Typed
<1>2. P!ControlStep(t) /\ req' \in [Threads -> Request]
  BY Known, UnlockControl, ReturnControl DEF ControlStep, P!ControlStep
<1>3. P!HeapUntouched => P!MNext
  BY <1>2 DEF P!Step, P!MNext
<1>4. QED
  BY <1>1, <1>2, <1>3, QuietStep DEF ListUntouched

(* Taking the lock.                                                        *)
LEMMA AcquireInv ==
  ASSUME AInv, NEW t \in Threads, Acquire(t)
  PROVE  AInv' /\ Refines
<1>1. UNCHANGED <<list, status, bytes>> /\ Moves(t) /\ TakeLock(t)
  BY Known DEF Acquire, TakeLock, Lock, Goto, Moves, ListUntouched
<1>2. P!TakeLock(t) /\ req' \in [Threads -> Request]
  BY <1>1, Known, LockControl DEF Typed
<1>3. P!HeapUntouched => P!MNext
  BY <1>2 DEF P!Acquire, P!MNext
<1>4. QED
  BY <1>1, <1>2, <1>3, QuietStep

(* A client's call.                                                        *)
LEMMA ClientCallInv ==
  ASSUME AInv, NEW t \in Threads, ListUntouched, UNCHANGED bytes,
         NEW p \in Owned(t) \cup {nullptr}, NEW n \in Sizes,
         malloc(t, n) \/ calloc(t, n) \/ free(t, p) \/ realloc(t, p, n)
  PROVE  AInv' /\ Refines
<1>1. UNCHANGED status /\ Moves(t)
  BY Known DEF malloc, calloc, free, realloc, Call, Goto, Moves, Typed
<1>2. P!nullptr = nullptr /\ P!Sizes = Sizes /\ P!Owned(t) = Owned(t)
  BY DEF P!nullptr, nullptr, P!Sizes, Sizes, P!Owned, Owned
<1>3. /\ P!malloc(t, n) \/ P!calloc(t, n) \/ P!free(t, p) \/ P!realloc(t, p, n)
      /\ req' \in [Threads -> Request]
  BY Known, ClientControl
<1>4. P!HeapUntouched => P!MNext
  BY <1>2, <1>3 DEF P!Client, P!MNext
<1>5. QED
  BY <1>1, <1>3, <1>4, QuietStep DEF ListUntouched

(* get_segment_size.                                                       *)
LEMMA ReadSizeInv ==
  ASSUME AInv, NEW t \in Threads, ReadSize(t)
  PROVE  AInv' /\ Refines
<1>1. PICK p \in DOMAIN Blocks : p = req[t].ptr
  BY Known, InCall DEF ReadSize, SizeKnown, At
<1>2. PICK n \in Sizes : n = Blocks[p]
  BY <1>1, Known DEF Sizes
<1>3. n = head[HeaderOf(p)].seg_size
  BY <1>1, <1>2, Known DEF BlocksAreSegments, Size
<1>4. SizeKnown(t, n) /\ UNCHANGED <<list, status, bytes>>
  BY <1>1, <1>3 DEF ReadSize, ListUntouched
<1>5. P!SizeKnown(t, n) /\ req' \in [Threads -> Request]
  BY <1>4, Known, SizeControl
<1>6. Requests[t].ptr = p
  BY <1>1, Known, Fields
<1>7. P!HeapUntouched => P!MNext
  BY <1>2, <1>4, <1>5, <1>6 DEF P!ReadSize, P!Step, P!MNext
<1>8. Moves(t)
  BY <1>4, Known DEF SizeKnown, Goto, Moves, Typed
<1>9. QED
  BY <1>4, <1>5, <1>7, <1>8, QuietStep

(* A block filled from end to end, by set_mem_zero or by its owner.        *)
LEMMA FillBlock ==
  ASSUME AInv, UNCHANGED <<list, status>>, NEW p \in DOMAIN Blocks, NEW n, n = Blocks[p],
         NEW v \in Tags, bytes' = Paint(bytes, p, n, v)
  PROVE  /\ S!IInv' /\ S!BreakBounded' /\ ArenaIntact' /\ bytes' \in Arena
         /\ P!Fill(p, n, v) /\ UNCHANGED <<Blocks, start # nullptr>>
<1>1. PICK h \in Segs : h \in Nat /\ p = h + SEG_HEAD /\ n = Size(h)
  BY Known DEF BlocksAreSegments
<1>2. n \in Nat /\ p \in Nat /\ p \in UserAddresses /\ SEG_HEAD \in Nat /\ p # 0 /\ MaxSize \in Nat
  BY <1>1, Known, Constants DEF BlocksAreSegments, UserAddresses
<1>3. /\ bytes' \in Arena
      /\ \A a \in 1..BreakLimit : bytes'[a] = IF p <= a /\ a < p + n THEN v ELSE bytes[a]
  <2>1. bytes \in Arena /\ p \in Nat /\ n \in Nat
    BY <1>2, Known
  <2>2. /\ Paint(bytes, p, n, v) \in Arena
        /\ \A a \in 1..BreakLimit :
             Paint(bytes, p, n, v)[a] = IF p <= a /\ a < p + n THEN v ELSE bytes[a]
    BY <2>1, Painted
  <2>3. QED
    BY <2>2
<1>4. \A a \in 1..BreakLimit :
        a < h + SEG_HEAD \/ h + SEG_HEAD + Size(h) <= a => bytes'[a] = bytes[a]
  BY <1>1, <1>2, <1>3, Constants
<1>5. /\ ArenaIntact' /\ Layout'
      /\ Contents' = [Contents EXCEPT ![p] =
           [i \in 1..MaxSize |-> IF i <= n THEN bytes'[p + i - 1] ELSE Junk]]
  BY <1>1, <1>3, <1>4, Known, ListStays, UserBytesOnly
<1>6. ASSUME NEW i \in 1..MaxSize
      PROVE  /\ i <= n => bytes'[p + i - 1] = v
             /\ ~ i <= n => Contents[p][i] = Junk
  <2>1. i \in Nat /\ i >= 1
    BY <1>2
  <2>2. n <= BreakLimit - p /\ BreakLimit \in Nat
    BY <1>1, <1>2, Known, Constants DEF Layout, EndOf
  <2>3. i <= n => bytes'[p + i - 1] = v
    <3>1. i <= n => /\ p + i - 1 \in 1..BreakLimit /\ p <= p + i - 1 /\ p + i - 1 < p + n
      BY <1>2, <2>1, <2>2
    <3>2. QED
      BY <1>3, <3>1
  <2>4. ~ i <= n => Contents[p][i] = Junk
    BY <1>2 DEF Contents
  <2>5. QED
    BY <2>3, <2>4
<1>7. [i \in 1..MaxSize |-> IF i <= n THEN bytes'[p + i - 1] ELSE Junk]
        = [i \in 1..MaxSize |-> IF i <= n THEN v ELSE Contents[p][i]]
  BY <1>6
<1>8. P!Fill(p, n, v)
  BY <1>2, <1>5, <1>7 DEF P!Fill, Contents
<1>9. QED
  BY <1>3, <1>5, <1>8, ListStays

(* set_mem_zero.                                                           *)
LEMMA ZeroInv ==
  ASSUME AInv, NEW t \in Threads, set_mem_zero(t)
  PROVE  AInv' /\ Refines
<1>1. PICK p \in DOMAIN Blocks : p = req[t].new_a /\ Blocks[p] = req[t].size
  BY Known, InCall DEF set_mem_zero, MemZeroed, At
<1>2. PICK n : n = req[t].size
  OBVIOUS
<1>3. /\ bytes' = Paint(bytes, p, n, Zero) /\ UNCHANGED <<list, status>>
      /\ MemZeroed(t)
  BY <1>1, <1>2 DEF set_mem_zero, ListUntouched
<1>4. /\ S!IInv' /\ S!BreakBounded' /\ ArenaIntact' /\ bytes' \in Arena
      /\ P!Fill(p, n, Zero) /\ UNCHANGED <<Blocks, start # nullptr>>
  BY <1>1, <1>2, <1>3, FillBlock, TagsAre
<1>5. P!MemZeroed(t) /\ req' \in [Threads -> Request]
  BY <1>3, Known, ZeroFreeControl
<1>6. Requests[t].new_a = p /\ Requests[t].size = n
  BY <1>1, <1>2, Known, Fields
<1>7. P!MNext
  BY <1>3, <1>4, <1>5, <1>6 DEF P!set_mem_zero, P!Step, P!MNext
<1>8. PlaceKept'
  <2>1. Moves(t) /\ call' = call
    BY <1>3, Known DEF MemZeroed, Goto, Result, Moves, Typed, list
  <2>2. QED
    BY <2>1, MovesKeepPlaces
<1>9. QED
  BY <1>4, <1>5, <1>7, <1>8, Together

(* The owner writes.                                                       *)
LEMMA WriteInv ==
  ASSUME AInv, NEW t \in Threads, NEW p \in Owned(t), Write(t, p)
  PROVE  AInv' /\ Refines
<1>1. p \in DOMAIN Blocks
  <2>1. P!EveryBlockAccounted
    BY DEF AInv, P!MIInv
  <2>2. QED
    BY <2>1 DEF Owned, P!EveryBlockAccounted
<1>2. PICK n : n = Blocks[p]
  OBVIOUS
<1>3. head[HeaderOf(p)].seg_size = n
  BY <1>1, <1>2, Known DEF BlocksAreSegments, Size
<1>4. /\ t \in Writers /\ Filled(t, p, n) /\ bytes' = Paint(bytes, p, n, t)
      /\ UNCHANGED <<list, status>> /\ UNCHANGED <<pc, req>>
  BY <1>3 DEF Write, ListUntouched, Filled
<1>5. /\ S!IInv' /\ S!BreakBounded' /\ ArenaIntact' /\ bytes' \in Arena
      /\ P!Fill(p, n, t) /\ UNCHANGED <<Blocks, start # nullptr>>
  BY <1>1, <1>2, <1>4, FillBlock, TagsAre
<1>6. UNCHANGED Requests /\ req' \in [Threads -> Request]
  BY <1>4, Known DEF Requests, Typed
<1>7. P!Filled(t, p, n) /\ P!Owned(t) = Owned(t)
  BY <1>4, <1>6 DEF Filled, P!Filled, At, P!At, Owned, P!Owned
<1>8. P!MNext
  BY <1>1, <1>2, <1>4, <1>5, <1>7 DEF P!Write, P!Client, P!MNext
<1>9. PlaceKept'
  BY <1>4, Known DEF PlaceKept, list
<1>10. QED
  BY <1>5, <1>6, <1>8, <1>9, Together

(* copy_mem: the block behind is that of the new segment, and is as large. *)
LEMMA CopyInv ==
  ASSUME AInv, NEW t \in Threads, copy_mem(t)
  PROVE  AInv' /\ Refines
<1>1. /\ req[t].ptr \in DOMAIN Blocks /\ req[t].new_a \in DOMAIN Blocks
      /\ req[t].ptr # req[t].new_a /\ Blocks[req[t].ptr] = req[t].old_size
      /\ Blocks[req[t].new_a] = req[t].size /\ req[t].old_size < req[t].size
  BY Known, InCall DEF copy_mem, At
<1>2. PICK p \in DOMAIN Blocks, q \in DOMAIN Blocks, m \in Sizes, n \in Sizes :
        /\ p = req[t].ptr /\ q = req[t].new_a /\ m = req[t].old_size /\ n = req[t].size
        /\ p # q /\ Blocks[p] = m /\ Blocks[q] = n /\ m < n
  BY <1>1, Known DEF Typed, Request
<1>3. PICK k \in Segs, h \in Segs :
        /\ k \in Nat /\ p = k + SEG_HEAD /\ m = Size(k)
        /\ h \in Nat /\ q = h + SEG_HEAD /\ n = Size(h)
  BY <1>2, Known DEF BlocksAreSegments
<1>4. /\ m \in Nat /\ n \in Nat /\ p \in Nat /\ q \in Nat /\ SEG_HEAD \in Nat \ {0}
      /\ SEG_TAIL \in Nat \ {0} /\ BreakLimit \in Nat /\ MaxSize \in Nat
  BY <1>3, Constants
<1>5. p # q /\ m < n
  BY <1>2
<1>6. /\ p + m <= q \/ q + n <= p
      /\ p + m <= BreakLimit /\ q + n <= BreakLimit
  <2>1. /\ TailOf(k) \in Nat /\ k + SEG_HEAD + m <= TailOf(k) /\ EndOf(k) = TailOf(k) + SEG_TAIL
        /\ EndOf(k) <= BreakLimit
        /\ TailOf(h) \in Nat /\ h + SEG_HEAD + n <= TailOf(h) /\ EndOf(h) = TailOf(h) + SEG_TAIL
        /\ EndOf(h) <= BreakLimit
        /\ k < h => EndOf(k) <= h
        /\ h < k => EndOf(h) <= k
    BY <1>3, Known DEF Layout, EndOf
  <2>2. h < k \/ k < h
    BY <1>3, <1>4, <1>5
  <2>3. QED
    BY <1>3, <1>4, <2>1, <2>2
<1>7. ~ (p + m > q /\ q > p)
  BY <1>4, <1>5, <1>6
<1>8. /\ MemCopied(t) /\ UNCHANGED <<list, status>>
      /\ bytes' = [a \in DOMAIN bytes |->
           IF q <= a /\ a < q + m THEN bytes[p + (a - q)] ELSE bytes[a]]
  BY <1>2, <1>7 DEF copy_mem, ListUntouched
<1>9. /\ bytes' \in Arena
      /\ \A a \in 1..BreakLimit :
           bytes'[a] = IF q <= a /\ a < q + m THEN bytes[p + (a - q)] ELSE bytes[a]
  <2>1. bytes \in [1..BreakLimit -> Tags]
    BY Known DEF Arena
  <2>2. \A a \in 1..BreakLimit : q <= a /\ a < q + m => p + (a - q) \in 1..BreakLimit
    BY <1>3, <1>4, <1>6
  <2>3. QED
    BY <1>8, <2>1, <2>2 DEF Arena
<1>10. \A a \in 1..BreakLimit :
         a < h + SEG_HEAD \/ h + SEG_HEAD + Size(h) <= a => bytes'[a] = bytes[a]
  BY <1>3, <1>4, <1>5, <1>9
<1>11. /\ ArenaIntact' /\ Layout' /\ Blocks' = Blocks
       /\ Contents' = [Contents EXCEPT ![q] =
            [i \in 1..MaxSize |-> IF i <= n THEN bytes'[q + i - 1] ELSE Junk]]
  <2>1. Layout /\ Layout' /\ ArenaIntact /\ bytes' \in Arena
    BY <1>8, <1>9, Known, ListStays
  <2>2. /\ ArenaIntact' /\ Blocks' = Blocks
        /\ Contents' = [Contents EXCEPT ![h + SEG_HEAD] =
             [i \in 1..MaxSize |-> IF i <= Size(h) THEN bytes'[h + SEG_HEAD + i - 1] ELSE Junk]]
    BY <1>8, <1>10, <2>1, UserBytesOnly
  <2>3. QED
    BY <1>3, <2>1, <2>2
<1>12. p \in UserAddresses /\ q \in UserAddresses
  BY <1>2, Known DEF BlocksAreSegments
<1>13. ASSUME NEW i \in 1..MaxSize
       PROVE  (IF i <= n THEN bytes'[q + i - 1] ELSE Junk)
                = IF i <= m THEN Contents[p][i] ELSE Contents[q][i]
  <2>1. i \in Nat /\ i >= 1
    BY <1>4
  <2>2. /\ Contents[p][i] = IF i <= m THEN bytes[p + i - 1] ELSE Junk
        /\ Contents[q][i] = IF i <= n THEN bytes[q + i - 1] ELSE Junk
    BY <1>2, <1>12 DEF Contents
  <2>3. CASE i <= m
    <3>1. /\ q + i - 1 \in 1..BreakLimit /\ q <= q + i - 1 /\ q + i - 1 < q + m
          /\ p + ((q + i - 1) - q) = p + i - 1 /\ i <= n
      BY <1>3, <1>4, <1>5, <1>6, <2>1, <2>3
    <3>2. bytes'[q + i - 1] = bytes[p + i - 1]
      BY <1>9, <3>1
    <3>3. QED
      BY <2>2, <2>3, <3>1, <3>2
  <2>4. CASE i > m /\ i <= n
    <3>1. q + i - 1 \in 1..BreakLimit /\ ~ q + i - 1 < q + m
      BY <1>3, <1>4, <1>6, <2>1, <2>4
    <3>2. bytes'[q + i - 1] = bytes[q + i - 1]
      BY <1>9, <3>1
    <3>3. QED
      BY <1>4, <2>1, <2>2, <2>4, <3>2
  <2>5. CASE i > n
    BY <1>4, <1>5, <2>1, <2>2, <2>5
  <2>6. QED
    BY <1>4, <2>1, <2>3, <2>4, <2>5
<1>14. Contents' = [Contents EXCEPT ![q] =
         [i \in 1..MaxSize |-> IF i <= m THEN Contents[p][i] ELSE Contents[q][i]]]
  BY <1>11, <1>13
<1>15. P!MemCopied(t) /\ req' \in [Threads -> Request]
  BY <1>8, Known, ReallocControl
<1>16. Requests[t].new_a = q /\ Requests[t].ptr = p /\ Requests[t].old_size = m
  BY <1>2, Known, Fields
<1>17. P!copy_mem(t)
  <2>1. Contents' = [Contents EXCEPT ![q] =
          [i \in 1..MaxSize |-> IF i <= m THEN Contents[p][i] ELSE @[i]]]
    BY <1>12, <1>14 DEF Contents
  <2>2. UNCHANGED <<Blocks, start # nullptr, status>>
    BY <1>8, ListStays
  <2>3. QED
    BY <1>15, <1>16, <2>1, <2>2 DEF P!copy_mem
<1>18. P!MNext
  BY <1>17 DEF P!Step, P!MNext
<1>19. PlaceKept'
  <2>1. Moves(t) /\ call' = call
    BY <1>8, Known DEF MemCopied, Goto, Result, Moves, Typed, list
  <2>2. QED
    BY <2>1, MovesKeepPlaces
<1>20. QED
  BY <1>8, <1>9, <1>11, <1>15, <1>18, <1>19, ListStays, Together

(* What a call of find_free_seg changes.                                   *)
LEMMA FindEffects ==
  ASSUME S!IInv, S!IInv', NEW n, n # 0, S!FindFreeSeg(n)
  PROVE  /\ head' = head /\ status = "running" /\ status' \in {"running", "exited"}
         /\ start # nullptr => start' = start
         /\ start = nullptr => Segs = {}
         /\ status' = "exited" => start' = start /\ call' = call
         /\ status' = "running" => call' = [new_a |-> call'.new_a, size |-> n] /\ call' # S!NoCall
<1>1. status' # "aborted"
  BY DEF S!IInv, S!NoAbort
<1>2. start = nullptr => Segs = {}
  BY DEF S!IInv, S!Unstarted, S!nullptr, nullptr, Segs, S!Live
<1>3. /\ head' = head /\ status = "running" /\ status' \in {"running", "exited"}
      /\ start # nullptr => start' = start
      /\ status' = "exited" => start' = start /\ call' = call
      /\ status' = "running" => \E a : call' = [new_a |-> a, size |-> n]
  BY <1>1 DEF S!FindFreeSeg, S!Idle, S!FindGap, S!CreateList, S!ExpandArena, S!expand_list,
     S!ExpandEmptyList, S!ExpandAfterLast, S!ExpandFails, S!ASSERT, S!Found, S!arena,
     S!nullptr, nullptr
<1>4. QED
  BY <1>2, <1>3 DEF S!NoCall

(* find_free_seg finds a place, or ends the process.                       *)
LEMMA FindInv ==
  ASSUME AInv, NEW t \in Threads, At(t, "m_find"), L!FindFreeSeg(req[t].size),
         IF status' = "running" THEN FoundPlace(t, call'.new_a) ELSE UNCHANGED control,
         bytes' = IF start = nullptr /\ start' # nullptr
                  THEN Paint(bytes, start', LIST_HEAD, Struct) ELSE bytes
  PROVE  AInv' /\ Refines
<1>1. PICK n \in Sizes \ {0} : n = req[t].size
  BY Known, InCall DEF At, Typed, Request
<1>2. S!FindFreeSeg(n)
  BY <1>1, SameFind
<1>3. S!IInv' /\ S!BreakBounded'
  BY <1>2, Known, ListNext DEF S!Next
<1>4. /\ head' = head /\ status = "running" /\ status' \in {"running", "exited"}
      /\ start # nullptr => start' = start
      /\ start = nullptr => Segs = {}
      /\ status' = "exited" => start' = start /\ call' = call
      /\ status' = "running" => call' = [new_a |-> call'.new_a, size |-> n] /\ call' # S!NoCall
  BY <1>1, <1>2, <1>3, Known, FindEffects
<1>5. Layout' /\ PlaceGood' /\ BlocksAreSegments' /\ Segs' = Segs /\ Blocks' = Blocks
  BY <1>3, <1>4, LayoutNext, PlaceNext, BlocksNext DEF Segs, Blocks, L!Live
<1>6. Contents' = Contents /\ bytes' \in Arena /\ ArenaIntact'
  <2>1. CASE start = nullptr /\ start' # nullptr
    <3>1. Segs = {} /\ DOMAIN Blocks = {} /\ Segs' = {} /\ DOMAIN Blocks' = {}
      BY <1>4, <1>5, <2>1, Known DEF BlocksAreSegments
    <3>2. Contents' = Contents
      BY <3>1 DEF Contents
    <3>3. start' \in Nat /\ LIST_HEAD \in Nat /\ bytes \in Arena /\ Struct \in Tags
      BY <1>5, Known, TagsAre, Constants DEF Layout
    <3>4. \A a \in 1..BreakLimit : bytes[a] = Junk
      BY <2>1, <3>1, Known DEF ArenaIntact, InListHead
    <3>5. /\ Paint(bytes, start', LIST_HEAD, Struct) \in Arena
          /\ \A a \in 1..BreakLimit :
               Paint(bytes, start', LIST_HEAD, Struct)[a]
                 = IF start' <= a /\ a < start' + LIST_HEAD THEN Struct ELSE bytes[a]
      BY <3>3, Painted
    <3>6. /\ bytes' \in Arena
          /\ \A a \in 1..BreakLimit :
               bytes'[a] = IF start' <= a /\ a < start' + LIST_HEAD THEN Struct ELSE bytes[a]
      BY <2>1, <3>5
    <3>7. ArenaIntact'
      BY <2>1, <3>1, <3>4, <3>6 DEF ArenaIntact, InListHead
    <3>8. QED
      BY <3>2, <3>6, <3>7
  <2>2. CASE ~ (start = nullptr /\ start' # nullptr)
    <3>1. bytes' = bytes /\ start' = start /\ head' = head
      BY <1>4, <2>2
    <3>2. Contents' = Contents
      BY <1>5, <3>1 DEF Contents
    <3>3. ArenaIntact'
      BY <3>1, Known DEF ArenaIntact, SegmentIntact, InListHead, Segs, Size, TailOf, EndOf
    <3>4. QED
      BY <3>1, <3>2, <3>3, Known
  <2>3. QED
    BY <2>1, <2>2
<1>7. CASE status' = "running"
  <2>1. PICK a : a = call'.new_a
    OBVIOUS
  <2>2. /\ FoundPlace(t, a) /\ call' = [new_a |-> a, size |-> n]
        /\ a \in Nat \ {0} /\ a \notin Segs' /\ a % ALIGNMENT = 0
        /\ start' # nullptr /\ a + SEG_HEAD <= BreakLimit
    BY <1>4, <1>5, <1>7, <2>1 DEF PlaceGood
  <2>3. P!FoundPlace(t, a + SEG_HEAD) /\ req' \in [Threads -> Request]
    BY <2>2, Known, MallocControl
  <2>4. a + SEG_HEAD \in UserAddresses
    <3>1. a \in Int /\ SEG_HEAD \in Int /\ S!Aligned(a) /\ S!Aligned(SEG_HEAD)
      BY <2>2, Constants DEF S!Aligned
    <3>2. S!Aligned(a + SEG_HEAD)
      BY <3>1, Constants, S!AlignedSum DEF S!LayoutAssumption
    <3>3. a + SEG_HEAD \in 1..BreakLimit
      BY <2>2, Constants
    <3>4. QED
      BY <3>2, <3>3 DEF S!Aligned, UserAddresses
  <2>5. a + SEG_HEAD \notin DOMAIN Blocks
    <3>1. SUFFICES ASSUME a + SEG_HEAD \in DOMAIN Blocks PROVE FALSE
      OBVIOUS
    <3>2. PICK k \in Segs : k \in Nat /\ a + SEG_HEAD = k + SEG_HEAD
      BY <3>1, Known DEF BlocksAreSegments
    <3>3. k = a
      BY <2>2, <3>2, Constants
    <3>4. QED
      BY <1>5, <2>2, <3>2, <3>3
  <2>6. P!MNext
    BY <1>4, <1>5, <1>6, <1>7, <2>2, <2>3, <2>4, <2>5 DEF P!find_free_seg, P!Step, P!MNext
  <2>7. PlaceKept'
    <3>1. /\ pc' = [pc EXCEPT ![t] = "m_add"] /\ req' = [req EXCEPT ![t].place = a]
          /\ pc[t] = "m_find"
      BY <2>2 DEF FoundPlace, Goto, At
    <3>2. /\ \A u \in Threads \ {t} : pc'[u] # "m_add"
          /\ req'[t].place = a /\ req'[t].size = n
      BY <1>1, <3>1, Known, Alone DEF Typed, Request, Critical
    <3>3. QED
      BY <2>2, <3>2 DEF PlaceKept
  <2>8. QED
    BY <1>3, <1>6, <2>3, <2>6, <2>7, Together
<1>8. CASE status' = "exited"
  <2>1. UNCHANGED <<lock, pc, req, held, call, start>>
    BY <1>4, <1>8 DEF control
  <2>2. UNCHANGED Requests /\ req' \in [Threads -> Request]
    BY <2>1, Known DEF Requests, Typed
  <2>3. P!At(t, "m_find")
    BY DEF At, P!At
  <2>4. P!MNext
    BY <1>5, <1>6, <1>8, <2>1, <2>2, <2>3 DEF P!find_free_seg, P!Step, P!MNext
  <2>5. PlaceKept'
    BY <2>1, Known DEF PlaceKept
  <2>6. QED
    BY <1>3, <1>6, <2>2, <2>4, <2>5, Together
<1>9. QED
  BY <1>4, <1>7, <1>8

(* Without a list there may be no memory for one.                          *)
LEMMA NoPlaceInv ==
  ASSUME AInv, NEW t \in Threads, start = nullptr, NoPlace(t), ListUntouched,
         UNCHANGED <<bytes, status>>
  PROVE  AInv' /\ Refines
<1>1. P!NoPlace(t) /\ req' \in [Threads -> Request] /\ Moves(t)
  BY Known, MallocControl DEF NoPlace, Goto, Moves
<1>2. P!HeapUntouched => P!MNext
  BY <1>1 DEF P!HeapUntouched, P!find_free_seg, P!Step, P!MNext
<1>3. QED
  BY <1>1, <1>2, QuietStep DEF ListUntouched

(* A segment ends where the next one may start.                            *)
LEMMA SegmentSpan ==
  ASSUME Layout, NEW h \in Segs
  PROVE  /\ L!TotalSize(Size(h)) \in Nat /\ h + L!TotalSize(Size(h)) = EndOf(h)
         /\ h \in Nat /\ Size(h) \in Nat /\ TailOf(h) \in Nat /\ EndOf(h) \in Nat
         /\ h + SEG_HEAD + Size(h) <= TailOf(h) /\ EndOf(h) = TailOf(h) + SEG_TAIL
         /\ EndOf(h) <= BreakLimit
<1>1. /\ h \in Nat /\ Size(h) \in Nat /\ TailOf(h) = S!TailAt(h, Size(h)) /\ TailOf(h) \in Nat
      /\ h + SEG_HEAD + Size(h) <= TailOf(h) /\ EndOf(h) <= BreakLimit
  BY DEF Layout
<1>2. S!round_up(Size(h), ALIGNMENT) \in Nat
  BY <1>1, S!RoundUp, Constants DEF S!LayoutAssumption
<1>3. L!TotalSize(Size(h)) = SEG_HEAD + S!round_up(Size(h), ALIGNMENT) + SEG_TAIL
  BY SameLayout DEF S!TotalSize
<1>4. QED
  BY <1>1, <1>2, <1>3, Constants DEF S!TailAt, EndOf

(* The numbers that bound the parts of a segment. *)
Spans == \A h \in Segs :
  /\ h \in Nat /\ Size(h) \in Nat /\ TailOf(h) \in Nat /\ EndOf(h) \in Nat
  /\ TailOf(h) = S!TailAt(h, Size(h))
  /\ h + SEG_HEAD + Size(h) <= TailOf(h) /\ EndOf(h) = TailOf(h) + SEG_TAIL
  /\ EndOf(h) <= BreakLimit

(* It follows from the layout.                                             *)
LEMMA SpansNow == Layout => Spans
BY SegmentSpan DEF Spans, Layout

(* The same for the next state.                                            *)
LEMMA SpansNext == Layout' => Spans'
BY SpansNow, PTL

(* The blocks of the list, after a step.                                   *)
LEMMA SameBlocks == Blocks = S!Blocks /\ Blocks' = S!Blocks'
BY DEF Blocks, S!Blocks, HeaderOf, L!Live, S!Live

(* add_entry.                                                              *)
LEMMA AddInv ==
  ASSUME AInv, NEW t \in Threads, add_entry(t)
  PROVE  AInv' /\ Refines
<1>1. PICK h, n : h = req[t].place /\ n = req[t].size
  OBVIOUS
<1>2. /\ pc[t] = "m_add" /\ L!AddEntry /\ EntryAdded(t, h + SEG_HEAD)
      /\ bytes' = Paint(Paint(bytes, h, SEG_HEAD, Struct), L!NewTail, SEG_TAIL, Struct)
  BY <1>1 DEF add_entry, EntryAdded, At
<1>3. h = call.new_a /\ n = call.size /\ n \in Sizes /\ n \in Nat
  <2>1. call = [new_a |-> req[t].place, size |-> req[t].size]
    BY <1>2, Known DEF PlaceKept
  <2>2. n \in Sizes
    BY <1>1, Known DEF Typed, Request
  <2>3. QED
    BY <1>1, <2>1, <2>2, Constants
<1>4. S!AddEntry
  BY <1>2, SameAdd
<1>5. S!IInv' /\ S!BreakBounded' /\ Layout'
  BY <1>4, Known, ListNext, LayoutNext DEF S!Next
<1>6. /\ h \in Nat /\ h \notin Segs /\ status' = status /\ start' = start
      /\ Segs' = Segs \cup {h} /\ Size(h)' = n /\ \A k \in Segs : Size(k)' = Size(k)
  <2>1. /\ h \in Nat /\ h \notin S!Live /\ status' = status /\ start' = start
        /\ S!Live' = S!Live \cup {h} /\ S!SizeOf(h)' = n
        /\ \A k \in S!Live : S!SizeOf(k)' = S!SizeOf(k)
    BY <1>3, <1>4, Known, S!AddEntrySizes, Constants DEF S!LayoutAssumption, S!ClientAssumption
  <2>2. QED
    BY <2>1 DEF S!Live, S!SizeOf, Segs, Size
<1>7. /\ h + SEG_HEAD + n <= TailOf(h)' /\ TailOf(h)' \in Nat /\ EndOf(h)' = TailOf(h)' + SEG_TAIL
      /\ TailOf(h)' = S!TailAt(h, n) /\ EndOf(h)' <= BreakLimit
  BY <1>5, <1>6, SpansNext DEF Spans
<1>8. L!NewTail = TailOf(h)'
  BY <1>3, <1>7, SameState DEF S!NewTail
<1>9. /\ bytes' \in Arena
      /\ \A a \in 1..BreakLimit :
           bytes'[a] = IF TailOf(h)' <= a /\ a < TailOf(h)' + SEG_TAIL THEN Struct
                       ELSE IF h <= a /\ a < h + SEG_HEAD THEN Struct ELSE bytes[a]
  <2>1. bytes \in Arena /\ Struct \in Tags /\ SEG_HEAD \in Nat /\ SEG_TAIL \in Nat
    BY Known, TagsAre, Constants
  <2>2. PICK b : b = Paint(bytes, h, SEG_HEAD, Struct)
    OBVIOUS
  <2>3. /\ b \in Arena
        /\ \A a \in 1..BreakLimit : b[a] = IF h <= a /\ a < h + SEG_HEAD THEN Struct ELSE bytes[a]
    BY <1>6, <2>1, <2>2, Painted
  <2>4. /\ Paint(b, TailOf(h)', SEG_TAIL, Struct) \in Arena
        /\ \A a \in 1..BreakLimit :
             Paint(b, TailOf(h)', SEG_TAIL, Struct)[a]
               = IF TailOf(h)' <= a /\ a < TailOf(h)' + SEG_TAIL THEN Struct ELSE b[a]
    BY <1>7, <2>1, <2>3, Painted
  <2>5. bytes' = Paint(b, TailOf(h)', SEG_TAIL, Struct)
    BY <1>2, <1>8, <2>2
  <2>6. QED
    BY <2>3, <2>4, <2>5
<1>10. /\ SEG_HEAD \in Nat \ {0} /\ SEG_TAIL \in Nat \ {0} /\ BreakLimit \in Nat /\ MaxSize \in Nat
  BY Constants
<1>11. OnlyAt(h)
  <2>1. \A a \in 1..BreakLimit : ~ Within(h, a) => bytes'[a] = bytes[a]
    BY <1>3, <1>6, <1>7, <1>9, <1>10 DEF Within
  <2>2. QED
    BY <1>6, <1>9, <2>1 DEF OnlyAt
<1>12. ASSUME NEW a \in 1..BreakLimit, h <= a, a < EndOf(h)' PROVE bytes[a] = Junk
  <2>1. a \in Nat /\ Within(h, a)
    BY <1>6, <1>10, <1>12 DEF Within
  <2>2. ~ InListHead(a)
    BY <1>5, <1>11, <2>1, Known, OthersOutside
  <2>3. \A k \in Segs : ~ (k <= a /\ a < EndOf(k))
    BY <1>5, <1>6, <1>11, <2>1, Known, OthersOutside
  <2>4. \A k \in Segs : a < k \/ EndOf(k) <= a
    BY <2>1, <2>3, Known, SpansNow DEF Spans
  <2>5. QED
    BY <2>2, <2>4, Known DEF ArenaIntact
<1>13. ArenaIntact'
  <2>1. SegmentIntact(h)'
    <3>1. \A a \in 1..BreakLimit :
            /\ h <= a /\ a < h + SEG_HEAD => bytes'[a] = Struct
            /\ h + SEG_HEAD + n <= a /\ a < TailOf(h)' => bytes'[a] = Junk
            /\ TailOf(h)' <= a /\ a < EndOf(h)' => bytes'[a] = Struct
      BY <1>3, <1>6, <1>7, <1>9, <1>10, <1>12
    <3>2. QED
      BY <1>6, <3>1 DEF SegmentIntact
  <2>2. \A a \in 1..BreakLimit : ~ (Within(h, a) /\ (h \in Segs' => EndOf(h)' <= a))
    BY <1>6, <1>7, <1>10 DEF Within
  <2>3. QED
    BY <1>5, <1>11, <2>1, <2>2, Known, OneSegment
<1>14. /\ Blocks' = P!Put(Blocks, h + SEG_HEAD, n) /\ h + SEG_HEAD \in UserAddresses
       /\ h + SEG_HEAD \in DOMAIN Blocks' /\ Blocks'[h + SEG_HEAD] = n
  <2>1. /\ S!Live \subseteq Nat /\ h \in Nat \ S!Live
        /\ S!Live' = S!Live \cup {h} /\ S!SizeOf(h)' = n
        /\ \A k \in S!Live : S!SizeOf(k)' = S!SizeOf(k)
    BY <1>6, Known DEF S!Live, S!SizeOf, Segs, Size, Layout
  <2>2. S!Blocks' = S!Put(S!Blocks, h + SEG_HEAD, n)
    BY <2>1, S!BlocksPut, Constants DEF S!LayoutAssumption, S!ClientAssumption
  <2>3. QED
    BY <1>5, <1>6, <2>2, SameBlocks, BlocksNext DEF S!Put, P!Put, BlocksAreSegments
<1>15. P!Scribble(h + SEG_HEAD, 0)
  <2>1. Contents' = [Contents EXCEPT ![h + SEG_HEAD] = UserBytes(h + SEG_HEAD)']
    BY <1>5, <1>11, <1>14, Known, ContentsElsewhere
  <2>2. ASSUME NEW i \in 1..MaxSize, i <= n PROVE bytes'[h + SEG_HEAD + i - 1] = Junk
    <3>1. i \in Nat /\ i >= 1
      BY <1>10
    <3>2. /\ h + SEG_HEAD + i - 1 \in 1..BreakLimit /\ h + SEG_HEAD <= h + SEG_HEAD + i - 1
          /\ h + SEG_HEAD + i - 1 < TailOf(h)'
      BY <1>3, <1>6, <1>7, <1>10, <2>2, <3>1
    <3>3. bytes'[h + SEG_HEAD + i - 1] = bytes[h + SEG_HEAD + i - 1]
      BY <1>6, <1>7, <1>9, <1>10, <3>1, <3>2
    <3>4. QED
      BY <1>6, <1>7, <1>10, <1>12, <3>1, <3>2, <3>3
  <2>3. UserBytes(h + SEG_HEAD)' = [i \in 1..MaxSize |-> Junk]
    BY <1>14, <2>2 DEF UserBytes
  <2>4. [i \in 1..MaxSize |-> Junk]
          = [i \in 1..MaxSize |-> IF i <= 0 THEN Contents[h + SEG_HEAD][i] ELSE Junk]
    BY <1>10
  <2>5. QED
    BY <1>14, <2>1, <2>3, <2>4 DEF P!Scribble, Contents
<1>16. P!EntryAdded(t, h + SEG_HEAD) /\ req' \in [Threads -> Request]
  BY <1>2, <1>6, <1>10, Known, MallocControl
<1>17. P!MNext
  <2>1. h # nullptr
    BY <1>3, <1>4, Known, PlaceHolds, Constants DEF PlaceGood, S!AddEntry
  <2>2. Requests[t].place = h + SEG_HEAD /\ Requests[t].size = n
    BY <1>1, <2>1, Known, Fields
  <2>3. P!add_entry(t)
    BY <1>6, <1>14, <1>15, <1>16, <2>2 DEF P!add_entry
  <2>4. QED
    BY <2>3 DEF P!Step, P!MNext
<1>18. PlaceKept'
  <2>1. \A u \in Threads : pc'[u] # "m_add"
    BY <1>2, Known, Alone DEF EntryAdded, Goto, Critical
  <2>2. QED
    BY <2>1 DEF PlaceKept
<1>19. QED
  BY <1>5, <1>9, <1>13, <1>16, <1>17, <1>18, Together

(* remove_segment.                                                         *)
LEMMA RemoveInv ==
  ASSUME AInv, NEW t \in Threads, remove_segment(t)
  PROVE  AInv' /\ Refines
<1>1. req[t].ptr \in DOMAIN Blocks
  BY Known, InCall DEF remove_segment, SegmentRemoved, At
<1>2. PICK h \in Segs : h = HeaderOf(req[t].ptr) /\ h \in Nat /\ req[t].ptr = h + SEG_HEAD
  BY <1>1, Known DEF BlocksAreSegments
<1>3. /\ SegmentRemoved(t) /\ L!RemoveSegment(h)
      /\ bytes' = Paint(bytes, h, L!TotalSize(Size(h)), Junk)
  BY <1>2 DEF remove_segment, Size
<1>4. S!RemoveSegment(h) /\ h \in S!Live
  BY <1>2, <1>3, SameRemove DEF S!Live, Segs
<1>5. S!IInv' /\ S!BreakBounded' /\ Layout'
  BY <1>4, Known, ListNext, LayoutNext DEF S!Next
<1>6. /\ status' = status /\ start' = start /\ call' = call
      /\ Segs' = Segs \ {h} /\ \A k \in Segs \ {h} : Size(k)' = Size(k)
  <2>1. /\ status' = status /\ start' = start /\ call' = call
        /\ S!Live' = S!Live \ {h} /\ \A k \in S!Live \ {h} : S!SizeOf(k)' = S!SizeOf(k)
    BY <1>4, <1>5, Known, S!RemoveSizes, Constants DEF S!LayoutAssumption, S!ClientAssumption
  <2>2. QED
    BY <2>1 DEF S!Live, S!SizeOf, Segs, Size
<1>7. /\ L!TotalSize(Size(h)) \in Nat /\ h + L!TotalSize(Size(h)) = EndOf(h)
      /\ EndOf(h) <= BreakLimit /\ EndOf(h) \in Nat
  BY <1>2, Known, SegmentSpan
<1>8. /\ bytes' \in Arena
      /\ \A a \in 1..BreakLimit :
           bytes'[a] = IF h <= a /\ a < EndOf(h) THEN Junk ELSE bytes[a]
  <2>1. bytes \in Arena /\ Junk \in Tags
    BY Known, TagsAre
  <2>2. /\ Paint(bytes, h, L!TotalSize(Size(h)), Junk) \in Arena
        /\ \A a \in 1..BreakLimit :
             Paint(bytes, h, L!TotalSize(Size(h)), Junk)[a]
               = IF h <= a /\ a < h + L!TotalSize(Size(h)) THEN Junk ELSE bytes[a]
    BY <1>2, <1>7, <2>1, Painted
  <2>3. QED
    BY <1>3, <1>7, <2>2
<1>9. OnlyAt(h) /\ h \notin Segs'
  <2>1. \A a \in 1..BreakLimit : ~ Within(h, a) => bytes'[a] = bytes[a]
    BY <1>2, <1>8 DEF Within
  <2>2. QED
    BY <1>2, <1>6, <1>8, <2>1 DEF OnlyAt
<1>10. ArenaIntact'
  <2>1. \A a \in 1..BreakLimit : Within(h, a) => bytes'[a] = Junk
    BY <1>8, <1>9 DEF Within
  <2>2. QED
    BY <1>5, <1>9, <2>1, Known, OneSegment
<1>11. /\ Blocks' = P!Drop(Blocks, h + SEG_HEAD) /\ h + SEG_HEAD \in UserAddresses
       /\ h + SEG_HEAD \notin DOMAIN Blocks'
  <2>1. /\ S!Live \subseteq Nat /\ h \in S!Live
        /\ S!Live' = S!Live \ {h} /\ \A k \in S!Live \ {h} : S!SizeOf(k)' = S!SizeOf(k)
    BY <1>2, <1>6, Known DEF S!Live, S!SizeOf, Segs, Size, Layout
  <2>2. S!Blocks' = S!Drop(S!Blocks, h + SEG_HEAD)
    BY <2>1, S!BlocksDrop, Constants DEF S!LayoutAssumption, S!ClientAssumption
  <2>3. Blocks' = P!Drop(Blocks, h + SEG_HEAD)
    BY <2>2, SameBlocks DEF S!Drop, P!Drop
  <2>4. QED
    BY <1>2, <2>3, Known DEF P!Drop, BlocksAreSegments
<1>12. P!Scribble(h + SEG_HEAD, 0)
  <2>1. Contents' = [Contents EXCEPT ![h + SEG_HEAD] = UserBytes(h + SEG_HEAD)']
    BY <1>5, <1>9, <1>11, Known, ContentsElsewhere
  <2>2. UserBytes(h + SEG_HEAD)' = [i \in 1..MaxSize |-> Junk]
    BY <1>11 DEF UserBytes
  <2>3. [i \in 1..MaxSize |-> Junk]
          = [i \in 1..MaxSize |-> IF i <= 0 THEN Contents[h + SEG_HEAD][i] ELSE Junk]
    BY Constants
  <2>4. QED
    BY <1>11, <2>1, <2>2, <2>3 DEF P!Scribble, Contents
<1>13. P!SegmentRemoved(t) /\ req' \in [Threads -> Request] /\ Requests[t].ptr = h + SEG_HEAD
  BY <1>2, <1>3, Known, ZeroFreeControl, Fields
<1>14. P!MNext
  BY <1>6, <1>11, <1>12, <1>13 DEF P!remove_segment, P!Step, P!MNext
<1>15. PlaceKept'
  <2>1. Moves(t)
    BY <1>3, Known DEF SegmentRemoved, Goto, Moves, Typed
  <2>2. QED
    BY <1>6, <2>1, MovesKeepPlaces
<1>16. QED
  BY <1>5, <1>8, <1>10, <1>13, <1>14, <1>15, Together

(* The bytes when a tail moves: the first ones stay, then comes junk, and   *)
(* the tail in it.                                                         *)
LEMMA TailMoves ==
  ASSUME AInv, NEW h \in Segs, NEW n \in Nat, MovedTail(h, n), Layout', Segs' = Segs,
         Size(h)' = n, start' = start, \A k \in Segs \ {h} : Size(k)' = Size(k),
         NEW kept \in Nat, kept = IF n < Size(h) THEN n ELSE Size(h)
  PROVE  /\ OnlyAt(h) /\ ArenaIntact' /\ bytes' \in Arena
         /\ \A a \in 1..BreakLimit :
              /\ h + SEG_HEAD <= a /\ a < h + SEG_HEAD + kept => bytes'[a] = bytes[a]
              /\ h + SEG_HEAD + kept <= a /\ a < h + SEG_HEAD + n => bytes'[a] = Junk
<1>1. /\ h \in Nat /\ Size(h) \in Nat /\ TailOf(h) \in Nat /\ EndOf(h) = TailOf(h) + SEG_TAIL
      /\ h + SEG_HEAD + Size(h) <= TailOf(h)
  BY Known, SpansNow DEF Spans
<1>2. PICK new \in Nat :
        /\ new = TailOf(h)' /\ new = S!TailAt(h, n) /\ EndOf(h)' = new + SEG_TAIL
        /\ h + SEG_HEAD + n <= new
  BY SpansNext DEF Spans
<1>3. SEG_HEAD \in Nat \ {0} /\ SEG_TAIL \in Nat \ {0} /\ BreakLimit \in Nat
  BY Constants
<1>4. PICK from, to : /\ from = h + SEG_HEAD + kept
                      /\ to = (IF TailOf(h) < new THEN new ELSE TailOf(h)) + SEG_TAIL
  OBVIOUS
<1>5. /\ from \in Nat /\ to \in Nat /\ kept <= n /\ kept <= Size(h) /\ from <= to
      /\ EndOf(h) <= to /\ EndOf(h)' <= to /\ (to = EndOf(h) \/ to = EndOf(h)')
  BY <1>1, <1>2, <1>3, <1>4
<1>6. bytes' = Paint(Paint(bytes, from, to - from, Junk), new, SEG_TAIL, Struct)
  BY <1>2, <1>4, SameLayout DEF MovedTail, Size, TailOf
<1>7. /\ bytes' \in Arena
      /\ \A a \in 1..BreakLimit :
           bytes'[a] = IF new <= a /\ a < new + SEG_TAIL THEN Struct
                       ELSE IF from <= a /\ a < to THEN Junk ELSE bytes[a]
  <2>1. PICK d \in Nat : d = to - from /\ from + d = to
    BY <1>5
  <2>2. bytes \in Arena /\ Struct \in Tags /\ Junk \in Tags /\ from \in Nat /\ SEG_TAIL \in Nat
    BY <1>3, <1>5, Known, TagsAre
  <2>3. PICK b : b = Paint(bytes, from, d, Junk)
    OBVIOUS
  <2>4. /\ b \in Arena
        /\ \A a \in 1..BreakLimit : b[a] = IF from <= a /\ a < from + d THEN Junk ELSE bytes[a]
    <3>1. /\ Paint(bytes, from, d, Junk) \in Arena
          /\ \A a \in 1..BreakLimit :
               Paint(bytes, from, d, Junk)[a]
                 = IF from <= a /\ a < from + d THEN Junk ELSE bytes[a]
      BY <2>2, Painted
    <3>2. QED
      BY <2>3, <3>1
  <2>5. /\ Paint(b, new, SEG_TAIL, Struct) \in Arena
        /\ \A a \in 1..BreakLimit :
             Paint(b, new, SEG_TAIL, Struct)[a]
               = IF new <= a /\ a < new + SEG_TAIL THEN Struct ELSE b[a]
    BY <2>2, <2>4, Painted
  <2>6. bytes' = Paint(b, new, SEG_TAIL, Struct)
    BY <1>6, <2>1, <2>3
  <2>7. QED
    BY <2>1, <2>4, <2>5, <2>6
<1>8. OnlyAt(h)
  <2>1. \A a \in 1..BreakLimit : ~ Within(h, a) => bytes'[a] = bytes[a]
    <3>1. ASSUME NEW a \in 1..BreakLimit, ~ Within(h, a)
          PROVE  a < h \/ to <= a
      BY <1>1, <1>5, <3>1 DEF Within
    <3>2. QED
      BY <1>1, <1>2, <1>3, <1>4, <1>5, <1>7, <3>1
  <2>2. QED
    BY <1>1, <1>7, <2>1 DEF OnlyAt
<1>9. SegmentIntact(h)'
  <2>1. SegmentIntact(h)
    BY Known DEF ArenaIntact
  <2>2. \A a \in 1..BreakLimit :
          /\ h <= a /\ a < h + SEG_HEAD => bytes'[a] = Struct
          /\ h + SEG_HEAD + n <= a /\ a < new => bytes'[a] = Junk
          /\ new <= a /\ a < new + SEG_TAIL => bytes'[a] = Struct
    BY <1>1, <1>2, <1>3, <1>4, <1>5, <1>7, <2>1 DEF SegmentIntact
  <2>3. QED
    BY <1>2, <2>2 DEF SegmentIntact
<1>10. ArenaIntact'
  <2>1. \A a \in 1..BreakLimit :
          Within(h, a) /\ (h \in Segs' => EndOf(h)' <= a) => bytes'[a] = Junk
    BY <1>1, <1>2, <1>3, <1>4, <1>5, <1>7 DEF Within
  <2>2. QED
    BY <1>8, <1>9, <2>1, Known, OneSegment
<1>11. \A a \in 1..BreakLimit :
         /\ h + SEG_HEAD <= a /\ a < h + SEG_HEAD + kept => bytes'[a] = bytes[a]
         /\ h + SEG_HEAD + kept <= a /\ a < h + SEG_HEAD + n => bytes'[a] = Junk
  BY <1>1, <1>2, <1>3, <1>4, <1>5, <1>7
<1>12. QED
  BY <1>7, <1>8, <1>10, <1>11

(* shrink_segment or expand_segment gives the segment of req[t].ptr the     *)
(* size the client has asked for.                                          *)
LEMMA ResizeInv ==
  ASSUME AInv, NEW t \in Threads, NEW h \in Segs, req[t].ptr = h + SEG_HEAD,
         NEW n \in Sizes, n # 0, n = req[t].size, req[t].old_size = Size(h), n # Size(h),
         L!ShrinkSegment(h, n) \/ L!ExpandSegment(h, n), MovedTail(h, n),
         \/ SegmentShrunk(t) /\ n < Size(h)
         \/ SegmentExpanded(t) /\ Size(h) < n
  PROVE  AInv' /\ Refines
<1>1. S!ShrinkSegment(h, n) \/ S!ExpandSegment(h, n)
  BY SameResize
<1>2. S!IInv' /\ S!BreakBounded' /\ Layout'
  <2>1. S!Next
    BY <1>1 DEF S!Next, S!Live, Segs
  <2>2. QED
    BY <2>1, Known, ListNext, LayoutNext
<1>3. /\ status' = status /\ Segs' = Segs /\ Size(h)' = n /\ start' = start /\ call' = call
      /\ \A k \in Segs \ {h} : Size(k)' = Size(k)
  <2>1. h \in S!Live
    BY DEF S!Live, Segs
  <2>2. /\ status' = status /\ start' = start /\ call' = call
        /\ S!Live' = S!Live /\ S!SizeOf(h)' = n
        /\ \A k \in S!Live \ {h} : S!SizeOf(k)' = S!SizeOf(k)
    BY <1>1, <2>1, Known, S!ResizeSizes, Constants DEF S!LayoutAssumption, S!ClientAssumption
  <2>3. QED
    BY <2>2 DEF S!Live, S!SizeOf, Segs, Size
<1>4. /\ h \in Nat /\ Size(h) \in Nat /\ n \in Nat /\ MaxSize \in Nat /\ SEG_HEAD \in Nat \ {0}
      /\ h + SEG_HEAD + n <= BreakLimit /\ BreakLimit \in Nat
  <2>1. /\ TailOf(h)' \in Nat /\ h + SEG_HEAD + n <= TailOf(h)' /\ EndOf(h)' = TailOf(h)' + SEG_TAIL
        /\ EndOf(h)' <= BreakLimit
    BY <1>2, <1>3, SpansNext DEF Spans
  <2>2. h \in Nat /\ Size(h) \in Nat
    BY Known, SpansNow DEF Spans
  <2>3. QED
    BY <2>1, <2>2, Constants
<1>5. PICK kept \in Nat : kept = IF n < Size(h) THEN n ELSE Size(h)
  BY <1>4
<1>6. /\ OnlyAt(h) /\ ArenaIntact' /\ bytes' \in Arena
      /\ \A a \in 1..BreakLimit :
           /\ h + SEG_HEAD <= a /\ a < h + SEG_HEAD + kept => bytes'[a] = bytes[a]
           /\ h + SEG_HEAD + kept <= a /\ a < h + SEG_HEAD + n => bytes'[a] = Junk
  BY <1>2, <1>3, <1>4, <1>5, TailMoves
<1>7. /\ Blocks' = [Blocks EXCEPT ![h + SEG_HEAD] = n] /\ h + SEG_HEAD \in UserAddresses
      /\ h + SEG_HEAD \in DOMAIN Blocks /\ Blocks[h + SEG_HEAD] = Size(h)
  <2>1. /\ S!Live \subseteq Nat /\ h \in S!Live /\ S!Live' = S!Live /\ S!SizeOf(h)' = n
        /\ \A k \in S!Live \ {h} : S!SizeOf(k)' = S!SizeOf(k)
    BY <1>3, Known DEF S!Live, S!SizeOf, Segs, Size, Layout
  <2>2. S!Blocks' = [S!Blocks EXCEPT ![h + SEG_HEAD] = n]
    BY <2>1, S!BlocksResize, Constants DEF S!LayoutAssumption, S!ClientAssumption
  <2>3. QED
    BY <2>2, SameBlocks, Known DEF BlocksAreSegments
<1>8. P!Scribble(h + SEG_HEAD, kept)
  <2>1. Contents' = [Contents EXCEPT ![h + SEG_HEAD] = UserBytes(h + SEG_HEAD)']
    BY <1>2, <1>6, <1>7, Known, ContentsElsewhere
  <2>2. h + SEG_HEAD \in DOMAIN Blocks' /\ Blocks'[h + SEG_HEAD] = n
    BY <1>7
  <2>3. ASSUME NEW i \in 1..MaxSize
        PROVE  UserBytes(h + SEG_HEAD)'[i] = IF i <= kept THEN Contents[h + SEG_HEAD][i] ELSE Junk
    <3>1. i \in Nat /\ i >= 1 /\ kept <= n /\ kept <= Size(h)
      BY <1>4, <1>5
    <3>2. UserBytes(h + SEG_HEAD)'[i] = IF i <= n THEN bytes'[h + SEG_HEAD + i - 1] ELSE Junk
      BY <2>2 DEF UserBytes
    <3>3. Contents[h + SEG_HEAD][i] = IF i <= Size(h) THEN bytes[h + SEG_HEAD + i - 1] ELSE Junk
      BY <1>7 DEF Contents
    <3>4. i <= n => h + SEG_HEAD + i - 1 \in 1..BreakLimit
      BY <1>4, <3>1
    <3>5. CASE i <= kept
      <4>1. i <= n /\ i <= Size(h) /\ h + SEG_HEAD <= h + SEG_HEAD + i - 1
            /\ h + SEG_HEAD + i - 1 < h + SEG_HEAD + kept
        BY <1>4, <3>1, <3>5
      <4>2. QED
        BY <1>6, <3>2, <3>3, <3>4, <3>5, <4>1
    <3>6. CASE kept < i /\ i <= n
      <4>1. /\ h + SEG_HEAD + kept <= h + SEG_HEAD + i - 1
            /\ h + SEG_HEAD + i - 1 < h + SEG_HEAD + n
        BY <1>4, <3>1, <3>6
      <4>2. ~ i <= kept
        BY <3>1, <3>6
      <4>3. QED
        BY <1>6, <3>2, <3>4, <3>6, <4>1, <4>2
    <3>7. CASE n < i
      BY <1>4, <3>1, <3>2, <3>7
    <3>8. QED
      BY <1>4, <3>1, <3>5, <3>6, <3>7
  <2>4. UserBytes(h + SEG_HEAD)' =
          [i \in 1..MaxSize |-> IF i <= kept THEN Contents[h + SEG_HEAD][i] ELSE Junk]
    BY <2>3 DEF UserBytes
  <2>5. QED
    BY <1>7, <2>1, <2>4 DEF P!Scribble, Contents
<1>9. /\ Requests[t].ptr = h + SEG_HEAD /\ Requests[t].size = n /\ Requests[t].old_size = Size(h)
  BY Known, Fields
<1>10. req' \in [Threads -> Request] /\ P!MNext
  <2>1. Size(h) - (Size(h) - n) = n /\ Size(h) + (n - Size(h)) = n
    BY <1>4
  <2>2. CASE SegmentShrunk(t) /\ n < Size(h)
    <3>1. P!SegmentShrunk(t) /\ req' \in [Threads -> Request] /\ kept = n
      BY <1>5, <2>2, Known, ReallocControl
    <3>2. P!Resized(t, Blocks[Requests[t].ptr] - (Requests[t].old_size - Requests[t].size),
                    Requests[t].size)
      BY <1>3, <1>7, <1>8, <1>9, <2>1, <3>1 DEF P!Resized
    <3>3. QED
      BY <3>1, <3>2 DEF P!shrink_segment, P!Step, P!MNext
  <2>3. CASE SegmentExpanded(t) /\ Size(h) < n
    <3>1. P!SegmentExpanded(t) /\ req' \in [Threads -> Request] /\ kept = Size(h)
      BY <1>4, <1>5, <2>3, Known, ReallocControl
    <3>2. P!Resized(t, Blocks[Requests[t].ptr] + (Requests[t].size - Requests[t].old_size),
                    Requests[t].old_size)
      BY <1>3, <1>7, <1>8, <1>9, <2>1, <3>1 DEF P!Resized
    <3>3. QED
      BY <3>1, <3>2 DEF P!expand_segment, P!Step, P!MNext
  <2>4. QED
    BY <2>2, <2>3
<1>11. PlaceKept'
  <2>1. Moves(t)
    BY Known DEF SegmentShrunk, SegmentExpanded, Goto, Result, Moves, Typed
  <2>2. QED
    BY <1>3, <2>1, MovesKeepPlaces
<1>12. QED
  BY <1>2, <1>6, <1>10, <1>11, Together

(* The sizes realloc has read are those of its segment, so shrink_segment  *)
(* does not refuse.                                                        *)
LEMMA ShrinkInv ==
  ASSUME AInv, NEW t \in Threads, shrink_segment(t)
  PROVE  AInv' /\ Refines
<1>1. /\ req[t].ptr \in DOMAIN Blocks /\ Blocks[req[t].ptr] = req[t].old_size
      /\ req[t].size # 0 /\ req[t].size < req[t].old_size
  BY Known, InCall DEF shrink_segment, At
<1>2. PICK h \in Segs : h = HeaderOf(req[t].ptr) /\ req[t].ptr = h + SEG_HEAD
                        /\ Size(h) = req[t].old_size
  BY <1>1, Known DEF BlocksAreSegments
<1>3. PICK n \in Sizes, m \in Sizes : n = req[t].size /\ m = req[t].old_size
  BY Known DEF Typed, Request
<1>4. n \in Nat /\ m \in Nat /\ n < m /\ n # 0 /\ m - (m - n) = n /\ ~ (m - n > m)
  <2>1. n \in Nat /\ m \in Nat
    BY Constants
  <2>2. QED
    BY <1>1, <1>3, <2>1
<1>5. SegmentShrunk(t) /\ L!ShrinkSegment(h, n) /\ MovedTail(h, n)
  <2>1. head[h].seg_size = m
    BY <1>2, <1>3 DEF Size
  <2>2. QED
    BY <1>2, <1>3, <1>4, <2>1 DEF shrink_segment
<1>6. /\ req[t].ptr = h + SEG_HEAD /\ n # 0 /\ n = req[t].size /\ req[t].old_size = Size(h)
      /\ n # Size(h) /\ n < Size(h)
  BY <1>2, <1>3, <1>4
<1>7. QED
  BY <1>5, <1>6, ResizeInv

(* expand_segment makes the same test as realloc, so it does not refuse     *)
(* either.                                                                 *)
LEMMA ExpandInv ==
  ASSUME AInv, NEW t \in Threads, expand_segment(t)
  PROVE  AInv' /\ Refines
<1>1. /\ req[t].ptr \in DOMAIN Blocks /\ Blocks[req[t].ptr] = req[t].old_size
      /\ req[t].old_size < req[t].size
  BY Known, InCall DEF expand_segment, At
<1>2. PICK h \in Segs : h = HeaderOf(req[t].ptr) /\ req[t].ptr = h + SEG_HEAD
                        /\ Size(h) = req[t].old_size
  BY <1>1, Known DEF BlocksAreSegments
<1>3. PICK n \in Sizes, m \in Sizes : n = req[t].size /\ m = req[t].old_size
  BY Known DEF Typed, Request
<1>4. n \in Nat /\ m \in Nat /\ m < n /\ n # 0 /\ m + (n - m) = n
  <2>1. n \in Nat /\ m \in Nat
    BY Constants
  <2>2. QED
    BY <1>1, <1>3, <2>1
<1>5. head[h].seg_size = m
  BY <1>2, <1>3 DEF Size
<1>6. RoomToExpand(h, m, n) => L!ExpandFits(h, n)
  BY <1>5 DEF RoomToExpand, L!ExpandFits
<1>7. CASE NoRoom(t) /\ ListUntouched /\ UNCHANGED <<bytes, status>>
  <2>1. P!NoRoom(t) /\ req' \in [Threads -> Request] /\ Moves(t)
    BY <1>7, Known, ReallocControl DEF NoRoom, Goto, Moves
  <2>2. P!HeapUntouched => P!MNext
    BY <1>7, <2>1 DEF P!expand_segment, P!Step, P!MNext
  <2>3. QED
    BY <1>7, <2>1, <2>2, QuietStep DEF ListUntouched
<1>8. CASE SegmentExpanded(t) /\ L!ExpandSegment(h, n) /\ MovedTail(h, n)
  <2>1. /\ req[t].ptr = h + SEG_HEAD /\ n # 0 /\ n = req[t].size /\ req[t].old_size = Size(h)
        /\ n # Size(h) /\ Size(h) < n
    BY <1>2, <1>3, <1>4
  <2>2. QED
    BY <1>8, <2>1, ResizeInv
<1>9. QED
  BY <1>2, <1>3, <1>4, <1>5, <1>6, <1>7, <1>8 DEF expand_segment

-----------------------------------------------------------------------------
(* All steps.                                                              *)

(* A step of a call.                                                       *)
LEMMA StepInv ==
  ASSUME AInv, NEW t \in Threads, Step(t)
  PROVE  AInv' /\ Refines
<1>1. CASE find_free_seg(t)
  <2>1. CASE start = nullptr /\ NoPlace(t) /\ ListUntouched /\ UNCHANGED <<bytes, status>>
    BY <2>1, NoPlaceInv
  <2>2. QED
    BY <1>1, <2>1, FindInv DEF find_free_seg
<1>2. QED
  BY <1>1, AddInv, ZeroInv, RemoveInv, ReadSizeInv, ShrinkInv, ExpandInv, CopyInv, ControlInv
     DEF Step

(* A step of a client.                                                     *)
LEMMA ClientInv ==
  ASSUME AInv, NEW t \in Threads, Client(t)
  PROVE  AInv' /\ Refines
<1>1. CASE \E p \in Owned(t) : Write(t, p)
  BY <1>1, WriteInv
<1>2. ASSUME NEW n \in Sizes, malloc(t, n) \/ calloc(t, n), ListUntouched, UNCHANGED bytes
      PROVE  AInv' /\ Refines
  <2>1. nullptr \in Owned(t) \cup {nullptr}
    OBVIOUS
  <2>2. QED
    BY <1>2, <2>1, ClientCallInv
<1>3. ASSUME NEW p \in Owned(t) \cup {nullptr}, ListUntouched, UNCHANGED bytes,
             free(t, p) \/ \E n \in Sizes : realloc(t, p, n)
      PROVE  AInv' /\ Refines
  <2>1. 0 \in Sizes
    BY Constants DEF Sizes
  <2>2. QED
    BY <1>3, <2>1, ClientCallInv
<1>4. QED
  BY <1>1, <1>2, <1>3 DEF Client

(* Every step, stuttering included.                                        *)
LEMMA NextInv ==
  ASSUME AInv, [ANext]_avars
  PROVE  AInv' /\ Refines
<1>1. CASE UNCHANGED avars
  <2>1. UNCHANGED <<lock, pc, req, held, status, start, head, tail, call, bytes>>
        /\ UNCHANGED <<list, status, bytes>>
    BY <1>1 DEF avars, list
  <2>2. S!IInv' /\ S!BreakBounded' /\ ArenaIntact' /\ bytes' \in Arena /\ P!HeapUntouched
    BY <2>1, HeapStays
  <2>3. UNCHANGED P!mvars
    BY <2>1, <2>2 DEF P!mvars, P!HeapUntouched, Requests
  <2>4. PlaceKept' /\ req' \in [Threads -> Request]
    BY <2>1, Known DEF PlaceKept, Typed
  <2>5. QED
    BY <2>2, <2>3, <2>4, Together
<1>2. CASE ANext /\ ~ UNCHANGED avars
  BY <1>2, StepInv, AcquireInv, ClientInv DEF ANext, Stopped
<1>3. QED
  BY <1>1, <1>2

(* Before the first call the arena is junk.                                *)
LEMMA InitInv ==
  ASSUME AInit
  PROVE  AInv /\ M!MInit
<1>1. S!IInv /\ S!BreakBounded
  <2>1. S!Init
    BY SameInit DEF AInit
  <2>2. S!IInv
    BY <2>1, S!InitInv, Constants DEF S!LayoutAssumption, S!ClientAssumption
  <2>3. QED
    BY <2>1, <2>2 DEF S!BreakBounded, S!Init
<1>2. /\ start = nullptr /\ Segs = {} /\ Blocks = [p \in {} |-> 0]
  BY DEF AInit, L!Init, L!nullptr, nullptr, L!Empty, Segs, Blocks, L!Live
<1>3. req = [t \in Threads |-> NoReq] /\ Requests = [t \in Threads |-> P!NoReq]
  BY NoRequest DEF AInit, CInit, Requests, UserPlace, NoReq, nullptr
<1>4. Contents = [p \in UserAddresses |-> [i \in 1..MaxSize |-> Junk]]
  BY <1>2 DEF Contents
<1>5. P!MInit
  BY <1>2, <1>3, <1>4 DEF P!MInit, P!CInit, AInit, CInit, P!Empty, Empty
<1>6. P!MIInv
  BY <1>5, P!InitInv, Constants DEF P!CallsAssumption, P!MethodsAssumption
<1>7. Typed /\ PlaceKept
  BY <1>3, NoRequest, TagsAre DEF AInit, CInit, Typed, PlaceKept
<1>8. ArenaIntact
  BY <1>2 DEF AInit, ArenaIntact, InListHead
<1>9. QED
  BY <1>1, <1>5, <1>6, <1>7, <1>8, SameInit DEF AInv

(* The invariant holds throughout.                                         *)
LEMMA Invariance == ASpec => []AInv
<1>1. AInit => AInv
  BY InitInv
<1>2. AInv /\ [ANext]_avars => AInv'
  BY NextInv
<1>3. QED
  BY <1>1, <1>2, PTL DEF ASpec

(* The list head lies below the limit of the break.                        *)
LEMMA ListHeadFits ==
  ASSUME S!IInv, S!BreakBounded
  PROVE  start # nullptr => start # 0 /\ start + LIST_HEAD <= BreakLimit
<1>1. S!IInv
  OBVIOUS
<1>2. start # nullptr => S!Base <= end_addr /\ end_addr <= brk /\ brk <= BreakLimit
  BY DEF S!IInv, S!TypeOK, S!ArenaInPages, S!ArenaBacked, S!BreakBounded, S!nullptr, nullptr
<1>3. /\ start \in Nat /\ end_addr \in Nat /\ brk \in Nat
      /\ LIST_HEAD \in Nat /\ BreakLimit \in Nat
  BY Constants DEF S!IInv, S!TypeOK
<1>4. QED
  BY <1>2, <1>3 DEF S!Base, nullptr

-----------------------------------------------------------------------------
(***************************************************************************)
(* The bound of the list leaves room for every call.                       *)
(***************************************************************************)

(* The threads inside a call, and those whose call has or may get a block. *)
Busy == {t \in Threads : pc[t] # "idle"}
Working == {t \in Threads : req[t].op \notin {"none", "free"} \/ req[t].ptr # nullptr}

(* What MayAllocate is for: every block and every call that may end with   *)
(* one has its place among MaxBlocks.                                      *)
RoomKept ==
  /\ IsFiniteSet(DOMAIN held) /\ IsFiniteSet(Busy)
  /\ Cardinality(DOMAIN held) + Cardinality(Working) <= MaxBlocks

(* A thread outside a call has nothing.                                    *)
LEMMA IdleHasNothing ==
  ASSUME AInv, NEW t \in Threads, pc[t] = "idle"
  PROVE  req[t].op = "none" /\ req[t].ptr = nullptr /\ t \notin Working
<1>1. P!Shape(t) /\ Typed
  BY DEF AInv, P!MIInv, P!CallOK
<1>2. Requests[t].op = "none" /\ Requests[t].ptr = 0
  BY <1>1 DEF P!Shape, P!NoReq, P!nullptr
<1>3. QED
  BY <1>1, <1>2, Fields DEF Working, nullptr

(* So the sets that are counted are finite.                                *)
LEMMA Counted ==
  ASSUME AInv, RoomKept
  PROVE  /\ Working \subseteq Busy /\ IsFiniteSet(Working)
         /\ Cardinality(Working) \in Nat /\ Cardinality(DOMAIN held) \in Nat
         /\ Cardinality(Busy) \in Nat /\ Cardinality(Working) <= Cardinality(Busy)
         /\ MaxBlocks \in Nat
<1>1. Working \subseteq Busy
  BY IdleHasNothing DEF Working, Busy
<1>2. IsFiniteSet(Working) /\ Cardinality(Working) <= Cardinality(Busy)
  BY <1>1, FS_Subset DEF RoomKept
<1>3. QED
  BY <1>1, <1>2, FS_CardinalityType, ArenaAssumption DEF RoomKept

(* A set that gains at most one element. *)
LEMMA OneMore ==
  ASSUME NEW A, IsFiniteSet(A), NEW x, NEW B \in SUBSET (A \cup {x})
  PROVE  IsFiniteSet(B) /\ Cardinality(B) \in Nat /\ Cardinality(B) <= Cardinality(A) + 1
<1>1. IsFiniteSet(A \cup {x}) /\ Cardinality(A \cup {x}) <= Cardinality(A) + 1
      /\ Cardinality(A) \in Nat
  BY FS_AddElement, FS_CardinalityType
<1>2. IsFiniteSet(B) /\ Cardinality(B) <= Cardinality(A \cup {x})
  BY <1>1, FS_Subset
<1>3. Cardinality(B) \in Nat /\ Cardinality(A \cup {x}) \in Nat
  BY <1>1, <1>2, FS_CardinalityType
<1>4. QED
  BY <1>1, <1>2, <1>3

(* And one that loses an element. *)
LEMMA OneLess ==
  ASSUME NEW A, IsFiniteSet(A), NEW x \in A, NEW B \in SUBSET (A \ {x})
  PROVE  IsFiniteSet(B) /\ Cardinality(B) \in Nat /\ Cardinality(B) + 1 <= Cardinality(A)
<1>1. IsFiniteSet(A \ {x}) /\ Cardinality(A \ {x}) = Cardinality(A) - 1
      /\ Cardinality(A) \in Nat
  BY FS_RemoveElement, FS_CardinalityType
<1>2. IsFiniteSet(B) /\ Cardinality(B) <= Cardinality(A \ {x})
  BY <1>1, FS_Subset
<1>3. Cardinality(B) \in Nat
  BY <1>2, FS_CardinalityType
<1>4. QED
  BY <1>1, <1>2, <1>3

(* A step of t does nothing to the other threads' calls.                   *)
OnlyMoves(t) == \A u \in Threads \ {t} : pc'[u] = pc[u] /\ req'[u] = req[u]

LEMMA OthersCounted ==
  ASSUME AInv, RoomKept, NEW t \in Threads, OnlyMoves(t)
  PROVE  /\ Busy' \subseteq Busy \cup {t} /\ IsFiniteSet(Busy')
         /\ Working' \subseteq Working \cup {t}
         /\ t \notin Working' => Working' \subseteq Working \ {t}
<1>1. /\ Busy' \subseteq Busy \cup {t}
      /\ Working' \subseteq Working \cup {t}
      /\ t \notin Working' => Working' \subseteq Working \ {t}
  BY DEF OnlyMoves, Busy, Working
<1>2. IsFiniteSet(Busy')
  BY <1>1, OneMore DEF RoomKept
<1>3. QED
  BY <1>1, <1>2

(* A step inside a call. *)
LEMMA CountKept ==
  ASSUME AInv, RoomKept, NEW t \in Threads, OnlyMoves(t), DOMAIN held' = DOMAIN held,
         t \in Working' => t \in Working
  PROVE  RoomKept'
<1>1. Working' \subseteq Working /\ IsFiniteSet(Busy')
  BY OthersCounted
<1>2. Cardinality(Working') <= Cardinality(Working) /\ Cardinality(Working') \in Nat
  BY <1>1, Counted, FS_Subset, FS_CardinalityType
<1>3. QED
  BY <1>1, <1>2, Counted DEF RoomKept

(* A call that allocates. *)
LEMMA CountReserved ==
  ASSUME AInv, RoomKept, NEW t \in Threads, OnlyMoves(t),
         DOMAIN held' = DOMAIN held, MayAllocate
  PROVE  RoomKept'
<1>1. Working' \in SUBSET (Working \cup {t}) /\ IsFiniteSet(Busy')
  BY OthersCounted
<1>2. Cardinality(Working') <= Cardinality(Working) + 1 /\ Cardinality(Working') \in Nat
  BY <1>1, Counted, OneMore
<1>3. Cardinality(DOMAIN held) + Cardinality(Busy) < MaxBlocks
  BY DEF MayAllocate, Busy
<1>4. Cardinality(DOMAIN held) + Cardinality(Working') <= MaxBlocks
  BY <1>2, <1>3, Counted
<1>5. QED
  BY <1>1, <1>4 DEF RoomKept

(* A call with a block, which its owner gives away. *)
LEMMA CountTaken ==
  ASSUME AInv, RoomKept, NEW t \in Threads, OnlyMoves(t), NEW p \in DOMAIN held,
         DOMAIN held' = DOMAIN held \ {p}
  PROVE  RoomKept'
<1>1. Working' \in SUBSET (Working \cup {t}) /\ IsFiniteSet(Busy')
  BY OthersCounted
<1>2. Cardinality(Working') <= Cardinality(Working) + 1 /\ Cardinality(Working') \in Nat
  BY <1>1, Counted, OneMore
<1>3. /\ IsFiniteSet(DOMAIN held') /\ Cardinality(DOMAIN held') \in Nat
      /\ Cardinality(DOMAIN held') + 1 <= Cardinality(DOMAIN held)
  BY OneLess DEF RoomKept
<1>4. Cardinality(DOMAIN held') + Cardinality(Working') <= MaxBlocks
  BY <1>2, <1>3, Counted DEF RoomKept
<1>5. QED
  BY <1>1, <1>3, <1>4 DEF RoomKept

(* A call that returns a block. *)
LEMMA CountReturned ==
  ASSUME AInv, RoomKept, NEW t \in Threads, OnlyMoves(t), t \in Working, t \notin Working',
         NEW p, DOMAIN held' = DOMAIN held \cup {p}
  PROVE  RoomKept'
<1>1. Working' \in SUBSET (Working \ {t}) /\ IsFiniteSet(Busy')
  BY OthersCounted
<1>2. Cardinality(Working') + 1 <= Cardinality(Working) /\ Cardinality(Working') \in Nat
  BY <1>1, Counted, OneLess
<1>3. /\ IsFiniteSet(DOMAIN held') /\ Cardinality(DOMAIN held') \in Nat
      /\ Cardinality(DOMAIN held') <= Cardinality(DOMAIN held) + 1
  BY OneMore DEF RoomKept
<1>4. Cardinality(DOMAIN held') + Cardinality(Working') <= MaxBlocks
  BY <1>2, <1>3, Counted DEF RoomKept
<1>5. QED
  BY <1>1, <1>3, <1>4 DEF RoomKept

(* The steps of a call that work on the heap. *)
LEMMA HeapStepKeepsRoom ==
  ASSUME AInv, RoomKept, NEW t \in Threads,
         \/ find_free_seg(t) \/ add_entry(t) \/ set_mem_zero(t) \/ remove_segment(t)
         \/ ReadSize(t) \/ shrink_segment(t) \/ expand_segment(t) \/ copy_mem(t)
  PROVE  RoomKept'
<1> DEFINE Goal == /\ OnlyMoves(t) /\ held' = held
                   /\ req'[t].op = req[t].op /\ req'[t].ptr \in {req[t].ptr, nullptr}
<1>1. pc \in [Threads -> Places] /\ req \in [Threads -> Request]
  BY Known DEF Typed
<1>2. ASSUME find_free_seg(t) PROVE Goal
  BY <1>1, <1>2 DEF find_free_seg, FoundPlace, NoPlace, Goto, ControlElsewhere, control, OnlyMoves,
     Request
<1>3. ASSUME add_entry(t) PROVE Goal
  BY <1>1, <1>3 DEF add_entry, EntryAdded, Goto, ControlElsewhere, OnlyMoves, Request
<1>4. ASSUME set_mem_zero(t) PROVE Goal
  BY <1>1, <1>4 DEF set_mem_zero, MemZeroed, Result, Goto, ControlElsewhere, OnlyMoves, Request
<1>5. ASSUME remove_segment(t) PROVE Goal
  BY <1>1, <1>5 DEF remove_segment, SegmentRemoved, Goto, ControlElsewhere, OnlyMoves, Request
<1>6. ASSUME ReadSize(t) PROVE Goal
  BY <1>1, <1>6 DEF ReadSize, SizeKnown, Goto, ControlElsewhere, OnlyMoves, Request
<1>7. ASSUME shrink_segment(t) PROVE Goal
  BY <1>1, <1>7 DEF shrink_segment, SegmentShrunk, Error, Refused, Result, Goto,
     ControlElsewhere, OnlyMoves, Request
<1>8. ASSUME expand_segment(t) PROVE Goal
  BY <1>1, <1>8 DEF expand_segment, SegmentExpanded, NoRoom, Error, Refused, Result, Goto,
     ControlElsewhere, OnlyMoves, Request
<1>9. ASSUME copy_mem(t) PROVE Goal
  BY <1>1, <1>9 DEF copy_mem, MemCopied, Error, Refused, Result, Goto, ControlElsewhere,
     OnlyMoves, Request
<1>10. Goal
  BY <1>2, <1>3, <1>4, <1>5, <1>6, <1>7, <1>8, <1>9
<1>11. t \in Working' => t \in Working
  BY <1>10 DEF Working, nullptr
<1>12. QED
  BY <1>10, <1>11, CountKept

(* The others: the lock, and the return.                                   *)
LEMMA ControlStepKeepsRoom ==
  ASSUME AInv, RoomKept, NEW t \in Threads, ControlStep(t) \/ TakeLock(t)
  PROVE  RoomKept'
<1>1. pc \in [Threads -> Places] /\ req \in [Threads -> Request]
  BY Known DEF Typed
<1>2. OnlyMoves(t)
  BY <1>1 DEF ControlStep, malloc_unlock, expand_unlock, Unlock, Return, TakeLock, Lock, Result,
     Goto, OnlyMoves
<1>3. CASE Return(t)
  <2>1. t \notin Working'
    BY <1>1, <1>3 DEF Return, NoReq, Working
  <2>2. CASE DOMAIN held' = DOMAIN held
    BY <1>2, <2>1, <2>2, CountKept
  <2>3. CASE DOMAIN held' # DOMAIN held
    <3>1. req[t].op \in {"malloc", "calloc", "realloc"}
      BY <1>3, <2>3 DEF Return
    <3>2. t \in Working
      BY <3>1 DEF Working
    <3>3. \E p : DOMAIN held' = DOMAIN held \cup {p}
      BY <1>3, <2>3 DEF Return, Put
    <3>4. QED
      BY <1>2, <2>1, <3>2, <3>3, CountReturned
  <2>4. QED
    BY <2>2, <2>3
<1>4. CASE ~ Return(t)
  <2>1. held' = held /\ req'[t].op = req[t].op /\ req'[t].ptr = req[t].ptr
    BY <1>1, <1>4 DEF ControlStep, malloc_unlock, expand_unlock, Unlock, TakeLock, Lock, Result,
       Request
  <2>2. t \in Working' => t \in Working
    BY <2>1 DEF Working
  <2>3. QED
    BY <1>2, <2>1, <2>2, CountKept
<1>5. QED
  BY <1>3, <1>4

(* A client's step.                                                        *)
LEMMA ClientKeepsRoom ==
  ASSUME AInv, RoomKept, NEW t \in Threads, Client(t)
  PROVE  RoomKept'
<1>1. pc \in [Threads -> Places] /\ req \in [Threads -> Request]
  BY Known DEF Typed
<1>2. ASSUME NEW op, NEW p, NEW n, NEW entry, Call(t, op, p, n, entry)
      PROVE  /\ OnlyMoves(t) /\ held' = Drop(held, p) /\ req'[t].op = op /\ req'[t].ptr = p
  BY <1>1, <1>2 DEF Call, Goto, OnlyMoves, NoReq
<1>3. ASSUME NEW op, NEW p \in Owned(t), NEW n, NEW entry, Call(t, op, p, n, entry)
      PROVE  RoomKept'
  <2>1. p \in DOMAIN held /\ DOMAIN held' = DOMAIN held \ {p}
    BY <1>2, <1>3 DEF Owned, Drop
  <2>2. QED
    BY <1>2, <1>3, <2>1, CountTaken
<1>4. nullptr \notin DOMAIN held
  BY Known DEF P!MIInv, P!EveryBlockAccounted, BlocksAreSegments, UserAddresses, nullptr
<1>5. ASSUME NEW op, NEW n, NEW entry, Call(t, op, nullptr, n, entry)
      PROVE  OnlyMoves(t) /\ DOMAIN held' = DOMAIN held /\ req'[t].op = op /\ req'[t].ptr = nullptr
  <2>1. DOMAIN held \ {nullptr} = DOMAIN held
    BY <1>4
  <2>2. held' = Drop(held, nullptr) /\ DOMAIN Drop(held, nullptr) = DOMAIN held \ {nullptr}
    BY <1>2, <1>5 DEF Drop
  <2>3. QED
    BY <1>2, <1>5, <2>1, <2>2
<1>6. ASSUME NEW op, NEW n, NEW entry, Call(t, op, nullptr, n, entry), MayAllocate
      PROVE  RoomKept'
  BY <1>5, <1>6, CountReserved
<1>7. ASSUME NEW n, NEW entry, Call(t, "free", nullptr, n, entry)
      PROVE  RoomKept'
  <2>1. t \notin Working'
    BY <1>5, <1>7 DEF Working, nullptr
  <2>2. QED
    BY <1>5, <1>7, <2>1, CountKept
<1>8. CASE MayAllocate /\ \E n \in Sizes : malloc(t, n) \/ calloc(t, n)
  BY <1>6, <1>8 DEF malloc, calloc
<1>9. ASSUME NEW p \in Owned(t) \cup {nullptr}, free(t, p)
      PROVE  RoomKept'
  BY <1>3, <1>7, <1>9 DEF free
<1>10. ASSUME NEW p \in Owned(t) \cup {nullptr}, NEW n \in Sizes, realloc(t, p, n),
              p = nullptr => MayAllocate
       PROVE  RoomKept'
  <2>1. CASE p = nullptr
    BY <1>6, <1>10, <2>1 DEF realloc
  <2>2. CASE p # nullptr
    BY <1>3, <1>10, <2>2 DEF realloc
  <2>3. QED
    BY <2>1, <2>2
<1>11. ASSUME NEW p \in Owned(t), Write(t, p)
       PROVE  RoomKept'
  <2>1. OnlyMoves(t) /\ DOMAIN held' = DOMAIN held /\ (t \in Working' => t \in Working)
    BY <1>11 DEF Write, Filled, OnlyMoves, Working
  <2>2. QED
    BY <2>1, CountKept
<1>12. QED
  BY <1>8, <1>9, <1>10, <1>11 DEF Client

(* So every step keeps the bound that MayAllocate was written for.         *)
LEMMA NextKeepsRoom ==
  ASSUME AInv, RoomKept, [ANext]_avars
  PROVE  RoomKept'
<1>1. ASSUME NEW t \in Threads, Step(t) PROVE RoomKept'
  BY <1>1, HeapStepKeepsRoom, ControlStepKeepsRoom DEF Step
<1>2. ASSUME NEW t \in Threads, Acquire(t) \/ Client(t) PROVE RoomKept'
  BY <1>2, ControlStepKeepsRoom, ClientKeepsRoom DEF Acquire
<1>3. CASE UNCHANGED avars
  BY <1>3 DEF avars, RoomKept, Busy, Working
<1>4. QED
  BY <1>1, <1>2, <1>3 DEF ANext, Stopped

(* At the start nothing is allocated and nobody is in a call.              *)
LEMMA InitRoom == AInit => RoomKept
<1> SUFFICES ASSUME AInit PROVE RoomKept
  OBVIOUS
<1>1. DOMAIN held = {} /\ Busy = {} /\ Working = {}
  BY DEF AInit, CInit, Empty, NoReq, Busy, Working
<1>2. QED
  BY <1>1, FS_EmptySet, ArenaAssumption DEF RoomKept

(* A function has no more values than arguments. *)
LEMMA Values ==
  ASSUME NEW A, IsFiniteSet(A), NEW f
  PROVE  /\ IsFiniteSet({f[x] : x \in A}) /\ Cardinality({f[x] : x \in A}) \in Nat
         /\ Cardinality({f[x] : x \in A}) <= Cardinality(A)
<1> DEFINE V == {f[x] : x \in A}
           g == [x \in A |-> f[x]]
<1>1. g \in Surjection(A, V)
  BY DEF Surjection
<1> HIDE DEF g, V
<1>2. IsFiniteSet(V) /\ Cardinality(V) <= Cardinality(A)
  BY <1>1, FS_Surjection
<1>3. Cardinality(V) \in Nat
  BY <1>2, FS_CardinalityType
<1>4. QED
  BY <1>2, <1>3 DEF V

(* A union is no larger than its parts together. *)
LEMMA TwoParts ==
  ASSUME NEW A, NEW B, IsFiniteSet(A), IsFiniteSet(B)
  PROVE  /\ IsFiniteSet(A \cup B) /\ Cardinality(A \cup B) \in Nat
         /\ Cardinality(A \cup B) <= Cardinality(A) + Cardinality(B)
<1>1. IsFiniteSet(A \cap B)
  BY FS_Subset
<1>2. /\ IsFiniteSet(A \cup B)
      /\ Cardinality(A \cup B) = Cardinality(A) + Cardinality(B) - Cardinality(A \cap B)
  BY FS_Union
<1>3. Cardinality(A \cup B) \in Nat
  BY <1>2, FS_CardinalityType
<1>4. Cardinality(A) \in Nat /\ Cardinality(B) \in Nat
  BY FS_CardinalityType
<1>5. Cardinality(A \cap B) \in Nat
  BY <1>1, FS_CardinalityType
<1>6. QED
  BY <1>2, <1>3, <1>4, <1>5

(* The size of what three sets cover. *)
LEMMA ThreeParts ==
  ASSUME NEW A, NEW B, NEW C, IsFiniteSet(A), IsFiniteSet(B), IsFiniteSet(C),
         NEW D \in SUBSET (A \cup B \cup C)
  PROVE  /\ IsFiniteSet(D) /\ Cardinality(D) \in Nat
         /\ Cardinality(D) <= Cardinality(A) + Cardinality(B) + Cardinality(C)
<1>1. /\ IsFiniteSet(A \cup B) /\ Cardinality(A \cup B) \in Nat
      /\ Cardinality(A \cup B) <= Cardinality(A) + Cardinality(B)
  BY TwoParts
<1>2. /\ IsFiniteSet((A \cup B) \cup C) /\ Cardinality((A \cup B) \cup C) \in Nat
      /\ Cardinality((A \cup B) \cup C) <= Cardinality(A \cup B) + Cardinality(C)
  BY <1>1, TwoParts
<1>3. /\ IsFiniteSet(D) /\ Cardinality(D) \in Nat
      /\ Cardinality(D) <= Cardinality((A \cup B) \cup C)
  BY <1>2, FS_Subset, FS_CardinalityType
<1>4. Cardinality(A) \in Nat /\ Cardinality(B) \in Nat /\ Cardinality(C) \in Nat
  BY FS_CardinalityType
<1>5. QED
  BY <1>1, <1>2, <1>3, <1>4

(* Where the blocks are: with a client, or pointed to by a working call,   *)
(* whose result is not there yet while it looks for a place.               *)
LEMMA BlocksCounted ==
  ASSUME AInv, NEW t \in Threads, pc[t] = "m_find"
  PROVE  /\ t \in Working
         /\ DOMAIN Blocks \subseteq DOMAIN held \cup {req[u].ptr : u \in Working}
                                               \cup {req[u].new_a : u \in Working \ {t}}
<1>1. /\ Typed /\ P!EveryBlockAccounted /\ \A u \in Threads : P!Shape(u)
  BY DEF AInv, P!MIInv, P!CallOK
<1>2. \A u \in Threads : /\ Requests[u].op = req[u].op /\ Requests[u].ptr = req[u].ptr
                         /\ Requests[u].new_a = req[u].new_a
  BY <1>1, Fields
<1>3. t \in Working /\ req[t].new_a = 0
  BY <1>1, <1>2 DEF P!Shape, P!Allocating, P!nullptr, Working
<1>4. ASSUME NEW u \in Threads, req[u].new_a # 0 PROVE u \in Working \ {t}
  <2>1. req[u].op \notin {"none", "free"}
    BY <1>1, <1>2, <1>4 DEF P!Shape, P!NoReq, P!nullptr
  <2>2. QED
    BY <1>3, <1>4, <2>1 DEF Working
<1>5. ASSUME NEW u \in Threads, req[u].ptr # 0 PROVE u \in Working
  BY <1>5 DEF Working, nullptr
<1>6. DOMAIN Blocks = DOMAIN held \cup UNION {{req[u].ptr, req[u].new_a} \ {0} : u \in Threads}
  BY <1>1, <1>2 DEF P!EveryBlockAccounted, P!InFlight, P!nullptr
<1>7. QED
  BY <1>3, <1>4, <1>5, <1>6

(* The bound of SegList leaves room for every call that looks for a place. *)
LEMMA RoomForCall ==
  ASSUME AInv, RoomKept, NEW t \in Threads, pc[t] = "m_find"
  PROVE  L!Cardinality(L!Live) < 2 * MaxBlocks
<1> DEFINE ptrs == [u \in Threads |-> req[u].ptr]
           news == [u \in Threads |-> req[u].new_a]
           A == DOMAIN held
           B == {ptrs[u] : u \in Working}
           C == {news[u] : u \in Working \ {t}}
<1>1. t \in Working /\ DOMAIN Blocks \subseteq A \cup B \cup C
  <2>1. /\ B = {req[u].ptr : u \in Working}
        /\ C = {req[u].new_a : u \in Working \ {t}}
    BY DEF Working
  <2>2. QED
    BY <2>1, BlocksCounted
<1>2. /\ IsFiniteSet(Working \ {t}) /\ Cardinality(Working \ {t}) \in Nat
      /\ Cardinality(Working \ {t}) + 1 <= Cardinality(Working)
  BY <1>1, Counted, OneLess
<1>3. /\ IsFiniteSet(B) /\ Cardinality(B) \in Nat /\ Cardinality(B) <= Cardinality(Working)
  BY Counted, Values
<1>4. /\ IsFiniteSet(C) /\ Cardinality(C) \in Nat
      /\ Cardinality(C) <= Cardinality(Working \ {t})
  BY <1>2, Values
<1> HIDE DEF A, B, C
<1>5. IsFiniteSet(A) /\ Cardinality(A) \in Nat /\ Cardinality(A) + Cardinality(Working) <= MaxBlocks
  BY Counted DEF RoomKept, A
<1>6. /\ IsFiniteSet(DOMAIN Blocks) /\ Cardinality(DOMAIN Blocks) \in Nat
      /\ Cardinality(DOMAIN Blocks) <= Cardinality(A) + Cardinality(B) + Cardinality(C)
  BY <1>1, <1>3, <1>4, <1>5, ThreeParts
<1>7. Cardinality(DOMAIN Blocks) < 2 * MaxBlocks
  BY <1>2, <1>3, <1>4, <1>5, <1>6, Counted
<1>8. Cardinality(Segs) \in Nat /\ Cardinality(Segs) <= Cardinality(DOMAIN Blocks)
  <2> DEFINE hdr == [p \in DOMAIN Blocks |-> HeaderOf(p)]
  <2>1. Segs = {hdr[p] : p \in DOMAIN Blocks}
    BY Known DEF BlocksAreSegments
  <2>2. QED
    BY <1>6, <2>1, Values
<1>9. L!Cardinality(L!Live) = Cardinality(Segs)
  BY DEF L!Cardinality, Cardinality, L!Live, Segs
<1>10. QED
  BY <1>6, <1>7, <1>8, <1>9, Counted

-----------------------------------------------------------------------------
(***************************************************************************)
(* What a call gives the list is still valid when the list gets it.        *)
(***************************************************************************)

(* What the next operation of t on the list asks of its arguments, whatever *)
(* the other threads did since they were read: find_free_seg an empty      *)
(* place, and one segment less than SegList stops at (its MaxSegs, here    *)
(* 2 * MaxBlocks); add_entry that all its assertions hold in the place;    *)
(* free and realloc that the pointer is a segment, with the size that was  *)
(* read without the lock; copy_mem that the blocks do not overlap.         *)
ArgumentsValid(t) ==
  LET r == req[t]
      h == HeaderOf(r.ptr)
  IN /\ pc[t] = "m_find" =>
          /\ L!Idle /\ r.size \in Sizes \ {0}
          /\ L!Cardinality(L!Live) < 2 * MaxBlocks
     /\ pc[t] = "m_add" =>
          /\ r.place # nullptr /\ call = [new_a |-> r.place, size |-> r.size]
          /\ L!AddChecks /\ L!GapChecks
     /\ pc[t] \in {"f_remove", "s_shrink", "e_expand"} => L!Idle
     /\ pc[t] \in {"f_remove", "r_size", "s_shrink", "e_expand", "r_copy"} => h \in Segs
     /\ pc[t] = "f_remove" => L!RemoveChecks(h)
     /\ pc[t] = "s_shrink" => r.old_size = Size(h) /\ 0 < r.size /\ r.size < Size(h)
     /\ pc[t] = "e_expand" =>
          /\ r.old_size = Size(h) /\ Size(h) < r.size
          /\ RoomToExpand(h, r.old_size, r.size) <=> L!ExpandFits(h, r.size)
     /\ pc[t] = "r_copy" => r.ptr + r.old_size <= r.new_a \/ r.new_a + r.size <= r.ptr

(* Between find_free_seg and add_entry somebody is on the way from the one *)
(* to the other.                                                           *)
NoForgottenPlace == (\A t \in Threads : pc[t] # "m_add") => call = S!NoCall

(* A step that keeps call, of a thread that is not about to add.           *)
LEMMA StillNoPlace ==
  ASSUME AInv, NoForgottenPlace, NEW t \in Threads, pc[t] # "m_add", call' = call,
         \A u \in Threads \ {t} : pc'[u] = pc[u]
  PROVE  NoForgottenPlace'
BY DEF NoForgottenPlace, S!NoCall

(* find_free_seg.                                                          *)
LEMMA FindKeepsPlace ==
  ASSUME AInv, NoForgottenPlace, NEW t \in Threads, find_free_seg(t)
  PROVE  NoForgottenPlace'
<1>1. pc[t] = "m_find" /\ pc \in [Threads -> Places]
  BY Known DEF find_free_seg, At
<1>2. CASE FoundPlace(t, call'.new_a)
  BY <1>1, <1>2 DEF FoundPlace, Goto, NoForgottenPlace
<1>3. CASE NoPlace(t) /\ ListUntouched
  BY <1>1, <1>3, StillNoPlace DEF NoPlace, Goto, ListUntouched, list
<1>4. CASE L!FindFreeSeg(req[t].size) /\ status' # "running" /\ UNCHANGED control
  <2>1. call' = call
    BY <1>4 DEF L!FindFreeSeg, L!Idle, L!FindGap, L!CreateList, L!ExpandFails, L!ExpandArena,
       L!expand_list, L!ExpandEmptyList, L!ExpandAfterLast, L!ASSERT
  <2>2. QED
    BY <1>1, <1>4, <2>1, StillNoPlace DEF control
<1>5. QED
  BY <1>2, <1>3, <1>4 DEF find_free_seg

(* add_entry.                                                              *)
LEMMA AddKeepsPlace ==
  ASSUME AInv, AInv', NEW t \in Threads, add_entry(t)
  PROVE  NoForgottenPlace'
<1>1. status' # "aborted"
  BY DEF AInv, S!IInv, S!NoAbort
<1>2. call' = S!NoCall
  BY <1>1 DEF add_entry, L!AddEntry, L!ASSERT, L!NoCall, S!NoCall, L!nullptr, S!nullptr
<1>3. QED
  BY <1>2 DEF NoForgottenPlace, S!NoCall

(* The steps that edit the list leave call alone, and so do all others.    *)
LEMMA RestKeepsPlace ==
  ASSUME AInv, NoForgottenPlace, NEW t \in Threads,
         \/ set_mem_zero(t) \/ remove_segment(t) \/ ReadSize(t) \/ shrink_segment(t)
         \/ expand_segment(t) \/ copy_mem(t) \/ (ControlStep(t) /\ ListUntouched)
         \/ Acquire(t) \/ Client(t)
  PROVE  NoForgottenPlace'
<1>1. call' = call
  <2>1. CASE \/ set_mem_zero(t) \/ ReadSize(t) \/ copy_mem(t) \/ (ControlStep(t) /\ ListUntouched)
             \/ Acquire(t) \/ Client(t)
    <3>1. ListUntouched
      <4>1. CASE set_mem_zero(t)
        BY <4>1 DEF set_mem_zero
      <4>2. CASE ReadSize(t)
        BY <4>2 DEF ReadSize
      <4>3. CASE copy_mem(t)
        BY <4>3 DEF copy_mem, Error
      <4>4. CASE Acquire(t)
        BY <4>4 DEF Acquire
      <4>5. CASE Client(t)
        BY <4>5 DEF Client, Write
      <4>6. QED
        BY <2>1, <4>1, <4>2, <4>3, <4>4, <4>5
    <3>2. QED
      BY <3>1 DEF ListUntouched, list
  <2>2. CASE remove_segment(t)
    BY <2>2 DEF remove_segment, L!RemoveSegment, L!RemoveInner, L!RemoveOnly, L!RemoveFirst,
       L!ASSERT
  <2>3. CASE shrink_segment(t) \/ expand_segment(t)
    <3>1. ListUntouched => call' = call
      BY DEF ListUntouched, list
    <3>2. CASE shrink_segment(t)
      BY <3>1, <3>2 DEF shrink_segment, Error, L!ShrinkSegment
    <3>3. CASE expand_segment(t)
      BY <3>1, <3>3 DEF expand_segment, Error, L!ExpandSegment
    <3>4. QED
      BY <2>3, <3>2, <3>3
  <2>4. QED
    BY <2>1, <2>2, <2>3
<1>2. pc[t] # "m_add" /\ \A u \in Threads \ {t} : pc'[u] = pc[u]
  <2>1. pc \in [Threads -> Places]
    BY Known
  <2>2. CASE set_mem_zero(t) \/ remove_segment(t) \/ ReadSize(t) \/ copy_mem(t)
    BY <2>1, <2>2 DEF set_mem_zero, MemZeroed, remove_segment, SegmentRemoved, ReadSize,
       SizeKnown, copy_mem, MemCopied, Error, Refused, At, Goto
  <2>3. CASE shrink_segment(t) \/ expand_segment(t)
    BY <2>1, <2>3 DEF shrink_segment, SegmentShrunk, expand_segment, SegmentExpanded, NoRoom,
       Error, Refused, At, Goto
  <2>4. CASE ControlStep(t) \/ Acquire(t)
    BY <2>1, <2>4 DEF ControlStep, malloc_unlock, expand_unlock, Unlock, Return, Acquire,
       TakeLock, Lock, At, Goto
  <2>5. CASE Client(t)
    BY <2>1, <2>5 DEF Client, malloc, calloc, free, realloc, Call, Write, Filled, At, Goto
  <2>6. QED
    BY <2>2, <2>3, <2>4, <2>5
<1>3. QED
  BY <1>1, <1>2, StillNoPlace

(* All steps.                                                              *)
LEMMA NextKeepsPlace ==
  ASSUME AInv, AInv', NoForgottenPlace, [ANext]_avars
  PROVE  NoForgottenPlace'
<1>1. CASE UNCHANGED avars
  <2>1. pc' = pc /\ call' = call
    BY <1>1 DEF avars
  <2>2. QED
    BY <2>1 DEF NoForgottenPlace, S!NoCall
<1>2. ASSUME NEW t \in Threads, Step(t) PROVE NoForgottenPlace'
  <2>1. \/ find_free_seg(t) \/ add_entry(t)
        \/ \/ set_mem_zero(t) \/ remove_segment(t) \/ ReadSize(t) \/ shrink_segment(t)
           \/ expand_segment(t) \/ copy_mem(t) \/ (ControlStep(t) /\ ListUntouched)
           \/ Acquire(t) \/ Client(t)
    BY <1>2 DEF Step
  <2>2. CASE find_free_seg(t)
    BY <2>2, FindKeepsPlace
  <2>3. CASE add_entry(t)
    BY <2>3, AddKeepsPlace
  <2>4. QED
    BY <2>1, <2>2, <2>3, RestKeepsPlace
<1>3. ASSUME NEW t \in Threads, Acquire(t) \/ Client(t) PROVE NoForgottenPlace'
  BY <1>3, RestKeepsPlace
<1>4. QED
  BY <1>1, <1>2, <1>3 DEF ANext, Stopped

(* Two blocks do not overlap.                                              *)
LEMMA BlocksApart ==
  ASSUME Layout, NEW p \in DOMAIN Blocks, NEW q \in DOMAIN Blocks, p # q
  PROVE  p + Blocks[p] <= q \/ q + Blocks[q] <= p
<1>1. BlocksAreSegments
  BY BlocksNow
<1>2. PICK k \in Segs, h \in Segs :
        /\ k \in Nat /\ p = k + SEG_HEAD /\ Blocks[p] = Size(k)
        /\ h \in Nat /\ q = h + SEG_HEAD /\ Blocks[q] = Size(h)
  BY <1>1 DEF BlocksAreSegments
<1>3. /\ Size(k) \in Nat /\ TailOf(k) \in Nat /\ k + SEG_HEAD + Size(k) <= TailOf(k)
      /\ Size(h) \in Nat /\ TailOf(h) \in Nat /\ h + SEG_HEAD + Size(h) <= TailOf(h)
      /\ SEG_HEAD \in Nat \ {0} /\ SEG_TAIL \in Nat \ {0}
      /\ k < h => TailOf(k) + SEG_TAIL <= h
      /\ h < k => TailOf(h) + SEG_TAIL <= k
  BY <1>2, Constants DEF Layout, EndOf
<1>4. k < h \/ h < k
  BY <1>2
<1>5. QED
  BY <1>2, <1>3, <1>4

(* Arguments of malloc's steps in the list.                                *)
LEMMA MallocArguments ==
  ASSUME AInv, NoForgottenPlace, NEW t \in Threads, status = "running"
  PROVE  /\ pc[t] = "m_find" => L!Idle /\ req[t].size \in Sizes \ {0}
         /\ pc[t] = "m_add" =>
              /\ req[t].place # nullptr /\ call = [new_a |-> req[t].place, size |-> req[t].size]
              /\ L!AddChecks /\ L!GapChecks
         /\ pc[t] \in {"f_remove", "s_shrink", "e_expand"} => L!Idle
<1>1. ASSUME pc[t] \in {"m_find", "f_remove", "s_shrink", "e_expand"} PROVE L!Idle
  <2>1. \A u \in Threads : pc[u] # "m_add"
    BY <1>1, Known, Alone DEF Critical
  <2>2. QED
    BY <2>1 DEF NoForgottenPlace, L!Idle, L!NoCall, S!NoCall, L!nullptr, S!nullptr
<1>2. pc[t] = "m_find" => req[t].size \in Sizes \ {0}
  BY Known, InCall DEF Typed, Request
<1>3. ASSUME pc[t] = "m_add"
      PROVE  /\ req[t].place # nullptr
             /\ call = [new_a |-> req[t].place, size |-> req[t].size]
             /\ L!AddChecks /\ L!GapChecks
  <2>1. call = [new_a |-> req[t].place, size |-> req[t].size]
    BY <1>3, Known DEF PlaceKept
  <2>2. call # S!NoCall
    BY <1>3, <2>1, Known, InCall DEF S!NoCall
  <2>3. S!AddChecks /\ S!GapChecks
    BY <2>2, Known, S!AddPlace, Constants DEF S!LayoutAssumption, S!ClientAssumption
  <2>4. call.new_a # 0
    BY <2>2, Known, PlaceHolds DEF PlaceGood
  <2>5. L!AddChecks /\ L!GapChecks
    BY <2>3 DEF L!AddChecks, S!AddChecks, L!GapChecks, S!GapChecks, L!Base, S!Base,
       L!TotalSize, S!TotalSize, L!round_up, S!round_up, L!nullptr, S!nullptr,
       L!get_prev_reference, S!get_prev_reference
  <2>6. QED
    BY <2>1, <2>4, <2>5, Constants
<1>4. QED
  BY <1>1, <1>2, <1>3

(* Arguments of free's and realloc's.                                      *)
LEMMA PointerArguments ==
  ASSUME AInv, NEW t \in Threads
  PROVE  LET r == req[t]
             h == HeaderOf(r.ptr)
         IN /\ pc[t] \in {"f_remove", "r_size", "s_shrink", "e_expand", "r_copy"} => h \in Segs
            /\ pc[t] = "f_remove" => L!RemoveChecks(h)
            /\ pc[t] = "s_shrink" => r.old_size = Size(h) /\ 0 < r.size /\ r.size < Size(h)
            /\ pc[t] = "e_expand" =>
                 /\ r.old_size = Size(h) /\ Size(h) < r.size
                 /\ RoomToExpand(h, r.old_size, r.size) <=> L!ExpandFits(h, r.size)
            /\ pc[t] = "r_copy" => r.ptr + r.old_size <= r.new_a \/ r.new_a + r.size <= r.ptr
<1> DEFINE r == req[t]
           h == HeaderOf(r.ptr)
<1>1. r.size \in Nat
  BY Known, Constants DEF Typed, Request
<1>2. ASSUME pc[t] \in {"f_remove", "r_size", "s_shrink", "e_expand", "r_copy"}
      PROVE  h \in Segs /\ Blocks[r.ptr] = Size(h) /\ r.ptr \in DOMAIN Blocks
  BY <1>2, Known, InCall DEF BlocksAreSegments
<1>3. ASSUME pc[t] = "f_remove" PROVE L!RemoveChecks(h)
  <2>1. h \in S!Live
    BY <1>2, <1>3, SameState
  <2>2. S!Base <= h /\ h + SEG_HEAD < end_addr
    BY <2>1, Known, S!RemoveContext, Constants DEF S!LayoutAssumption, S!ClientAssumption
  <2>3. S!Base \in Nat /\ h \in Nat
    BY <1>2, <1>3, Known, S!IInvFacts, Constants
       DEF Layout, S!LayoutAssumption, S!ClientAssumption
  <2>4. QED
    BY <2>2, <2>3 DEF L!RemoveChecks, L!Base, S!Base
<1>4. pc[t] = "s_shrink" => r.old_size = Size(h) /\ 0 < r.size /\ r.size < Size(h)
  BY <1>1, <1>2, Known, InCall
<1>5. pc[t] = "e_expand" => r.old_size = Size(h) /\ Size(h) < r.size
  BY <1>2, Known, InCall
<1>6. pc[t] = "e_expand" => (RoomToExpand(h, r.old_size, r.size) <=> L!ExpandFits(h, r.size))
  BY <1>5 DEF RoomToExpand, L!ExpandFits, Size
<1>7. ASSUME pc[t] = "r_copy"
      PROVE  r.ptr + r.old_size <= r.new_a \/ r.new_a + r.size <= r.ptr
  <2>1. /\ r.ptr \in DOMAIN Blocks /\ r.new_a \in DOMAIN Blocks /\ r.ptr # r.new_a
        /\ Blocks[r.ptr] = r.old_size /\ Blocks[r.new_a] = r.size
    BY <1>7, Known, InCall
  <2>2. QED
    BY <2>1, Known, BlocksApart
<1>8. QED
  BY <1>2, <1>3, <1>4, <1>5, <1>6, <1>7


-----------------------------------------------------------------------------
(***************************************************************************)
(* The theorems.                                                           *)
(***************************************************************************)

(* Types; no ASSERT of memory_mgmt.c ends the process, whatever the threads *)
(* do.                                                                     *)
THEOREM AllocatorTypes == ASpec => []ATypeOK
<1>1. AInv => ATypeOK
  <2> SUFFICES ASSUME AInv PROVE ATypeOK
    OBVIOUS
  <2>1. /\ lock \in Threads \cup {NoThread} /\ status \in {"running", "exited"}
        /\ pc \in [Threads -> Places]
    BY Known DEF P!MTypeOK
  <2>2. bytes \in [1..BreakLimit -> {Junk, Zero, Struct} \cup Threads]
    BY DEF AInv, Typed, Tags
  <2>3. \A t \in Threads : req[t].ptr \in Nat /\ req[t].place \in Nat /\ req[t].new_a \in Nat
    BY DEF AInv, Typed, Request
  <2>4. QED
    BY <2>1, <2>2, <2>3 DEF ATypeOK
<1>2. QED
  BY <1>1, Invariance, PTL

(* No byte of a header or a tail is written by a client, by set_mem_zero   *)
(* or by copy_mem, and no byte a client relies on by anybody else: for any  *)
(* number of threads and any layout.                                       *)
THEOREM MemoryStaysIntact == ASpec => []MemoryIntact
<1>1. AInv => MemoryIntact
  <2> SUFFICES ASSUME AInv PROVE MemoryIntact
    OBVIOUS
  <2>1. /\ SEG_HEAD \in Nat \ {0} /\ SEG_TAIL \in Nat \ {0} /\ LIST_HEAD \in Nat \ {0}
        /\ BreakLimit \in Nat /\ MaxSize \in Nat
    BY Constants
  <2>2. start # nullptr => Holds(start, LIST_HEAD, Struct)
    <3> SUFFICES ASSUME start # nullptr, NEW a \in start .. start + LIST_HEAD - 1
                 PROVE  bytes[a] = Struct
      BY DEF Holds
    <3>1. start \in Nat /\ start # 0 /\ start + LIST_HEAD <= BreakLimit
      BY Known, ListHeadFits, Constants DEF Layout
    <3>2. a \in 1..BreakLimit /\ InListHead(a)
      BY <2>1, <3>1 DEF InListHead
    <3>3. QED
      BY <3>2, Known DEF ArenaIntact
  <2>3. ASSUME NEW h \in Segs
        PROVE  Holds(h, SEG_HEAD, Struct) /\ Holds(TailOf(h), SEG_TAIL, Struct)
    <3>1. /\ h \in Nat /\ Size(h) \in Nat /\ TailOf(h) \in Nat /\ EndOf(h) = TailOf(h) + SEG_TAIL
          /\ h + SEG_HEAD + Size(h) <= TailOf(h) /\ EndOf(h) <= BreakLimit /\ h # 0
      BY Known, SpansNow, Constants DEF Spans, Layout
    <3>2. SegmentIntact(h)
      BY Known DEF ArenaIntact
    <3>3. ASSUME NEW a \in h .. h + SEG_HEAD - 1 PROVE bytes[a] = Struct
      <4>1. a \in 1..BreakLimit /\ h <= a /\ a < h + SEG_HEAD
        BY <2>1, <3>1
      <4>2. QED
        BY <3>2, <4>1 DEF SegmentIntact
    <3>4. ASSUME NEW a \in TailOf(h) .. TailOf(h) + SEG_TAIL - 1 PROVE bytes[a] = Struct
      <4>1. a \in 1..BreakLimit /\ TailOf(h) <= a /\ a < EndOf(h)
        BY <2>1, <3>1
      <4>2. QED
        BY <3>2, <4>1 DEF SegmentIntact
    <3>5. QED
      BY <3>3, <3>4 DEF Holds
  <2>4. \A u \in DOMAIN tail : Holds(u, SEG_TAIL, Struct)
    BY <2>3, Known DEF Layout
  <2>5. ASSUME NEW p \in DOMAIN held PROVE Holds(p, held[p].trust.count, held[p].trust.tag)
    <3>1. /\ p \in DOMAIN Blocks /\ held[p].trust.count <= Blocks[p]
          /\ \A i \in 1..held[p].trust.count : Contents[p][i] = held[p].trust.tag
      BY Known DEF P!MIInv, P!DataIntact
    <3>2. held[p].trust.count \in Nat /\ Blocks[p] \in Nat /\ Blocks[p] <= MaxSize
      BY <3>1, Known DEF P!MTypeOK, P!Trust, P!Sizes
    <3>3. p \in UserAddresses /\ p \in Nat
      BY <3>1, Known DEF BlocksAreSegments, UserAddresses
    <3>4. ASSUME NEW a \in p .. p + held[p].trust.count - 1 PROVE bytes[a] = held[p].trust.tag
      <4>1. PICK i \in Nat : i = a - p + 1 /\ i >= 1 /\ i <= held[p].trust.count /\ a = p + i - 1
        BY <3>2, <3>3
      <4>2. i \in 1..held[p].trust.count /\ i \in 1..MaxSize /\ i <= Blocks[p]
        BY <2>1, <3>1, <3>2, <4>1
      <4>3. Contents[p][i] = bytes[p + i - 1]
        BY <3>1, <3>3, <4>2 DEF Contents
      <4>4. QED
        BY <3>1, <4>1, <4>2, <4>3
    <3>5. QED
      BY <3>4 DEF Holds
  <2>6. QED
    BY <2>2, <2>3, <2>4, <2>5 DEF MemoryIntact, L!Live, Segs
<1>2. QED
  BY <1>1, Invariance, PTL

(* The calls on the segment list, byte by byte, are calls on the abstract  *)
(* heap of Methods: what is proved of those holds of these.                *)
THEOREM AllocatorImplementsMethods == ASpec => ImplementsMethods
<1>1. AInit => M!MInit
  BY InitInv
<1>2. AInv /\ [ANext]_avars => [M!MNext]_(M!mvars)
  BY NextInv, SameNext DEF Refines
<1>3. QED
  BY <1>1, <1>2, Invariance, PTL DEF ASpec, ImplementsMethods

(* A step of the calls on the abstract heap is one of MallocAPI, or unseen. *)
LEMMA StepsSeen ==
  ASSUME P!MIInv, [P!MNext]_(P!mvars)
  PROVE  [M!API!APINext]_(M!API!apivars)
  BY P!NextSeen, SameAPI, Constants DEF P!CallsAssumption, P!MethodsAssumption

(* Nothing is allocated at the start. *)
LEMMA StartSeen ==
  ASSUME M!MInit
  PROVE  M!API!APIInit
<1>1. P!MInit
  BY DEF P!MInit, M!MInit, P!CInit, M!CInit, P!NoReq, M!NoReq, P!NoTrust, M!NoTrust,
     P!Empty, M!Empty, P!nullptr, M!nullptr
<1>2. P!API!APIInit
  BY <1>1, P!InitSeen, Constants DEF P!CallsAssumption, P!MethodsAssumption
<1>3. M!API!Empty = P!API!Empty /\ M!API!NoCall = P!API!NoCall
  BY SameView DEF P!API!Empty, M!API!Empty, P!API!NoCall, M!API!NoCall
<1>4. QED
  BY <1>2, <1>3, SameView DEF P!API!APIInit, M!API!APIInit

(* With the list and the bytes of memory_mgmt.c below them, too, the calls *)
(* of several threads are atomic: malloc, calloc, realloc and free behave  *)
(* as MallocAPI says, whatever the sizes of the structs, the alignment and *)
(* the break.                                                              *)
THEOREM AllocatorCallsAreAtomic == ASpec => M!ImplementsAPI
<1>1. AInit => M!API!APIInit
  BY InitInv, StartSeen
<1>2. AInv /\ [ANext]_avars => [M!API!APINext]_(M!API!apivars)
  BY NextInv, StepsSeen DEF Refines, AInv
<1>3. QED
  BY <1>1, <1>2, Invariance, PTL DEF ASpec, M!ImplementsAPI, M!API!APISpec

(* Whatever the threads do in between, an operation of the list gets       *)
(* arguments it can work on: find_free_seg is never at the bound SegList   *)
(* puts on the number of segments, no assertion fires, the place found is  *)
(* still free, a pointer is still a segment of the size read without the   *)
(* lock, and neither shrink_segment, expand_segment nor copy_mem has a     *)
(* reason to return ERROR.                                                 *)
THEOREM ArgumentsStayValid ==
  ASpec => [](status = "running" => \A t \in Threads : ArgumentsValid(t))
<1>1. AInit => NoForgottenPlace /\ RoomKept
  BY InitRoom DEF AInit, L!Init, L!NoCall, S!NoCall, L!nullptr, S!nullptr, NoForgottenPlace
<1>2. AInv /\ AInv' /\ NoForgottenPlace /\ [ANext]_avars => NoForgottenPlace'
  BY NextKeepsPlace
<1>3. AInv /\ RoomKept /\ [ANext]_avars => RoomKept'
  BY NextKeepsRoom
<1>4. AInv /\ NoForgottenPlace /\ RoomKept
        => (status = "running" => \A t \in Threads : ArgumentsValid(t))
  BY MallocArguments, PointerArguments, RoomForCall DEF ArgumentsValid
<1>5. QED
  BY <1>1, <1>2, <1>3, <1>4, Invariance, PTL DEF ASpec

(* The list stays linked, sorted, exact and aligned when several threads    *)
(* work on it: what SegListProofs shows of one sequence of calls, the lock  *)
(* and the calls' own order give to all of them.                            *)
THEOREM ListStaysSound ==
  ASpec => [](/\ L!ListLinked /\ L!AddressOrder /\ L!GapAccounting /\ L!FirstIsLowest
              /\ L!SegmentsDisjoint /\ L!LastAddrLive /\ L!AllAligned
              /\ L!ArenaBacked /\ L!ArenaInPages /\ L!NoAbort)
<1> DEFINE Sound == /\ L!ListLinked /\ L!AddressOrder /\ L!GapAccounting /\ L!FirstIsLowest
                    /\ L!SegmentsDisjoint /\ L!LastAddrLive /\ L!AllAligned
                    /\ L!ArenaBacked /\ L!ArenaInPages /\ L!NoAbort
<1>1. AInv => Sound
  <2> SUFFICES ASSUME AInv PROVE Sound
    OBVIOUS
  <2>1. S!IInv /\ S!SegmentsDisjoint
    BY S!DisjointSegments, Constants DEF AInv, S!LayoutAssumption, S!ClientAssumption
  <2>2. /\ L!Live = S!Live /\ L!Base = S!Base /\ L!nullptr = S!nullptr
        /\ \A x, y : L!TailAt(x, y) = S!TailAt(x, y) /\ L!TotalSize(x) = S!TotalSize(x)
        /\ \A h : L!NextHead(h) = S!NextHead(h)
        /\ \A n : L!Aligned(n) <=> S!Aligned(n)
    BY SameLayout, SameState DEF L!Base, S!Base, L!nullptr, S!nullptr, L!NextHead, S!NextHead,
       L!Aligned, S!Aligned
  <2>3. L!ListLinked /\ L!AddressOrder /\ L!GapAccounting
    BY <2>1, <2>2 DEF S!IInv, L!ListLinked, S!ListLinked, L!AddressOrder, S!AddressOrder,
       L!GapAccounting, S!GapAccounting
  <2>4. L!FirstIsLowest /\ L!SegmentsDisjoint /\ L!LastAddrLive
    BY <2>1, <2>2 DEF S!IInv, L!FirstIsLowest, S!FirstIsLowest, L!SegmentsDisjoint,
       S!SegmentsDisjoint, L!LastAddrLive, S!LastAddrLive
  <2>5. L!AllAligned /\ L!ArenaBacked /\ L!ArenaInPages /\ L!NoAbort
    BY <2>1, <2>2 DEF S!IInv, L!AllAligned, S!AllAligned, L!ArenaBacked, S!ArenaBacked,
       L!ArenaInPages, S!ArenaInPages, L!NoAbort, S!NoAbort
  <2>6. QED
    BY <2>3, <2>4, <2>5
<1>2. QED
  BY <1>1, Invariance, PTL

(* On the bytes as on the abstract heap: no block is leaked, shared or      *)
(* kept after it was freed, data stay intact, and only the holder of        *)
(* storage_lock is in the list.                                             *)
THEOREM BlocksStaySound ==
  ASpec => [](/\ M!LockDiscipline /\ M!EveryBlockAccounted /\ M!DataIntact
              /\ M!PlaceStillFree)
<1> DEFINE Sound == /\ M!LockDiscipline /\ M!EveryBlockAccounted /\ M!DataIntact
                    /\ M!PlaceStillFree
<1>1. AInv => Sound
  BY DEF AInv, P!MIInv, M!LockDiscipline, P!LockDiscipline, M!Critical, P!Critical,
     M!EveryBlockAccounted, P!EveryBlockAccounted, M!InFlight, P!InFlight,
     M!nullptr, P!nullptr, M!DataIntact, P!DataIntact, M!PlaceStillFree, P!PlaceStillFree
<1>2. QED
  BY <1>1, Invariance, PTL
=============================================================================
