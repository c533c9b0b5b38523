------------------------------ MODULE SegList ------------------------------
(***************************************************************************)
(* The segment list of julmalloc (memory_mgmt.c, linked_list_mgmt.c): one  *)
(* arena that grows and shrinks with the program break, and in it a        *)
(* circular doubly linked list of segments.  A segment is a header, the    *)
(* user bytes rounded up to ALIGNMENT, and a tail:                         *)
(*                                                                         *)
(*   start      Base                                            end_addr   *)
(*   | LIST_HEAD | gap | SEG_HEAD | user | SEG_TAIL | gap | ... | gap |    *)
(*                                                                         *)
(* A header points to its own tail and to the previous tail, a tail to its *)
(* own header and to the next header, and a tail counts the free bytes     *)
(* that follow it.  The gap before the first segment is counted nowhere.   *)
(*                                                                         *)
(* Memory is sparse: `head' and `tail' map the address of each struct that *)
(* belongs to a segment to its fields.  The bytes of a removed struct are  *)
(* free space and are not modelled; using such an address would be an      *)
(* application outside the domain, which TLC reports.                      *)
(*                                                                         *)
(* Every action is one call made with storage_lock held, so actions are    *)
(* atomic; malloc() makes two of them, find_free_seg and add_entry, and    *)
(* `call' carries the address from the first to the second.  Which fitting *)
(* gap find_free_seg picks is the strategy's business: here it is any of   *)
(* them.                                                                   *)
(***************************************************************************)
EXTENDS AllocDefs, FiniteSets, Maps

CONSTANTS
  Sizes,          (* request sizes the clients use                         *)
  InitialBreaks,  (* values sbrk(0) may have before the first call         *)
  BreakLimit,     (* bound: the kernel never grants a break above it       *)
  MaxSegs         (* bound: clients hold at most this many segments        *)

ASSUME ClientAssumption ==
  /\ Sizes \subseteq Nat \ {0}
  /\ InitialBreaks \subseteq Nat \ {0}
  /\ BreakLimit \in Nat
  /\ MaxSegs \in Nat

VARIABLES
  brk,        (* the program break                                         *)
  start,      (* address of the list header, nullptr before the first call *)
  first_seg,  (* start->first_seg                                          *)
  end_addr,   (* start->end_addr                                           *)
  head,       (* seg_head_s structs by address                             *)
  tail,       (* seg_tail_s structs by address                             *)
  last_addr,  (* next-fit's pointer, kept by every strategy                *)
  call,       (* malloc between find_free_seg and add_entry                *)
  status      (* "running", "exited" by exit(), "aborted" by an ASSERT     *)

arena == <<brk, start, first_seg, end_addr>>
vars  == <<brk, start, first_seg, end_addr, head, tail, last_addr, call, status>>

SegHead == [next_seg_tail : Nat, prev_seg_tail : Nat, seg_size : Nat]
SegTail == [next_seg_head : Nat, prev_seg_head : Nat, free_following : Nat]

Live == DOMAIN head
Base == start + LIST_HEAD
NoCall == [new_a |-> nullptr, size |-> 0]
Idle == status = "running" /\ call = NoCall

(* The tail address of a segment at h with n user bytes. *)
TailAt(h, n) == h + SEG_HEAD + round_up(n, ALIGNMENT)

(* a_abort(): the ASSERT macro stops the program when cond is false. *)
ASSERT(cond, Effect) ==
  IF cond THEN Effect /\ status' = status
  ELSE /\ status' = "aborted"
       /\ UNCHANGED <<arena, head, tail, last_addr, call>>

Init ==
  /\ brk \in InitialBreaks
  /\ start = nullptr /\ first_seg = nullptr /\ end_addr = nullptr
  /\ head = Empty /\ tail = Empty
  /\ last_addr = nullptr
  /\ call = NoCall
  /\ status = "running"

-----------------------------------------------------------------------------
(***************************************************************************)
(* find_free_seg: a gap that fits, or else expand_list.                    *)
(***************************************************************************)

(* The gap between the list header and the first segment (or the end). *)
StartGap == (IF first_seg = nullptr THEN end_addr ELSE first_seg) - Base

(* Start addresses of the gaps large enough for a request. *)
FittingGaps(size) ==
  { t + SEG_TAIL : t \in { u \in DOMAIN tail : tail[u].free_following >= TotalSize(size) } }
    \cup IF StartGap >= TotalSize(size) THEN {Base} ELSE {}

(* The gap that starts at addr. *)
GapAt(addr) == IF addr = Base THEN StartGap ELSE tail[addr - SEG_TAIL].free_following

Found(addr, size) == call' = [new_a |-> addr, size |-> size]

(* sbrk(n), as far as the bound lets it succeed. *)
sbrk(n) == brk + n <= BreakLimit /\ brk' = brk + n

(* The header that follows the segment at h in the list. *)
NextHead(h) == tail[head[h].next_seg_tail].next_seg_head

(* The last segment's tail: the predecessor of the first header. *)
LastTail == head[first_seg].prev_seg_tail

(* The checks find_last_tail makes on it. *)
LastTailChecks ==
  /\ LastTail + SEG_TAIL <= end_addr
  /\ LastTail + SEG_TAIL + tail[LastTail].free_following = end_addr

FindGap(size) ==
  /\ start # nullptr
  /\ \E addr \in FittingGaps(size) : Found(addr, size)
  /\ UNCHANGED <<arena, head, tail, last_addr, status>>

(***************************************************************************)
(* The first call: create_list takes the list header from sbrk with        *)
(* ALIGNMENT bytes to spare, aligns it, and expand_list adds the pages.    *)
(* When create_list's own sbrk fails malloc returns nullptr and nothing    *)
(* has changed: a stuttering step.                                         *)
(***************************************************************************)
CreateList(size) ==
  LET list == round_up(brk, ALIGNMENT)
      grow == PageCeil(TotalSize(size))
  IN /\ start = nullptr
     /\ sbrk(LIST_HEAD + ALIGNMENT + grow)
     /\ start' = list
     /\ first_seg' = nullptr
     /\ end_addr' = list + LIST_HEAD + grow
     /\ Found(list + LIST_HEAD, size)
     /\ UNCHANGED <<head, tail, last_addr, status>>

(***************************************************************************)
(* expand_list, which every strategy's failure leads to.                   *)
(***************************************************************************)
ExpandEmptyList(size) ==
  LET to_expand == TotalSize(size) - (end_addr - Base)
  IN /\ first_seg = nullptr
     /\ ASSERT(to_expand > 0,
          /\ sbrk(PageCeil(to_expand))
          /\ end_addr' = end_addr + PageCeil(to_expand)
          /\ Found(Base, size)
          /\ UNCHANGED <<start, first_seg, head, tail, last_addr>>)

ExpandAfterLast(size) ==
  LET trailing  == tail[LastTail].free_following
      to_expand == TotalSize(size) - trailing
  IN /\ first_seg # nullptr
     /\ ASSERT(LastTailChecks /\ trailing < TotalSize(size),
          /\ sbrk(PageCeil(to_expand))
          /\ end_addr' = end_addr + PageCeil(to_expand)
          /\ tail' = [tail EXCEPT ![LastTail].free_following = @ + PageCeil(to_expand)]
          /\ Found(LastTail + SEG_TAIL, size)
          /\ UNCHANGED <<start, first_seg, head, last_addr>>)

(* sbrk refuses: exit(EXIT_FAILURE), the lock still held.  The process is  *)
(* gone, so what the call had changed before does not matter any more.     *)
ExpandFails ==
  /\ status' = "exited"
  /\ UNCHANGED <<arena, head, tail, last_addr, call>>

expand_list(size) == ExpandEmptyList(size) \/ ExpandAfterLast(size) \/ ExpandFails

ExpandArena(size) ==
  /\ start # nullptr
  /\ FittingGaps(size) = {}
  /\ expand_list(size)

FindFreeSeg(size) ==
  /\ Idle /\ Cardinality(Live) < MaxSegs
  /\ \/ FindGap(size)
     \/ CreateList(size)
     \/ start = nullptr /\ ExpandFails
     \/ ExpandArena(size)

-----------------------------------------------------------------------------
(***************************************************************************)
(* add_entry: a new header and tail in the gap at call.new_a.              *)
(***************************************************************************)

NewTail == TailAt(call.new_a, call.size)

(* The header before addr, or the list header when there is none. *)
get_prev_reference(addr) ==
  IF first_seg = nullptr \/ first_seg > addr THEN start
  ELSE tail[addr - SEG_TAIL].prev_seg_head

(* The structs of the new segment. *)
NewHeader(pred) ==
  [next_seg_tail |-> NewTail, prev_seg_tail |-> pred, seg_size |-> call.size]
NewTrailer(next, after) ==
  [next_seg_head |-> next, prev_seg_head |-> call.new_a, free_following |-> after]

Insert_LeavesBackLink(pred, before, after) ==
  LET next == tail[pred].next_seg_head
  IN /\ head' = Put(head, call.new_a, NewHeader(pred))
     /\ tail' = Put([tail EXCEPT ![pred].next_seg_head = call.new_a,
                                 ![pred].free_following = before],
                    NewTail, NewTrailer(next, after))

(* Link the new segment behind the tail pred, whose own count becomes      *)
(* `before'; `after' free bytes follow the new segment.                    *)
Insert(pred, before, after) ==
  LET next == tail[pred].next_seg_head
  IN /\ head' = Put([head EXCEPT ![next].prev_seg_tail = NewTail],
                    call.new_a, NewHeader(pred))
     /\ tail' = Put([tail EXCEPT ![pred].next_seg_head = call.new_a,
                                 ![pred].free_following = before],
                    NewTail, NewTrailer(next, after))

AddChecks ==
  /\ call.new_a <= end_addr - TotalSize(call.size)
  /\ call.new_a >= Base

(* The list is empty: the segment is its own neighbour on both sides. *)
AddToEmptyList ==
  /\ first_seg = nullptr
  /\ end_addr - call.new_a >= TotalSize(call.size)
  /\ head' = Put(Empty, call.new_a, NewHeader(NewTail))
  /\ tail' = Put(Empty, NewTail,
               NewTrailer(call.new_a, end_addr - (call.new_a + TotalSize(call.size))))
  /\ first_seg' = call.new_a

AddBeforeFirst_KeepsFirst ==
  LET room == (first_seg - Base) - (call.new_a - Base)
  IN /\ first_seg # nullptr /\ get_prev_reference(call.new_a) = start
     /\ Insert(LastTail, tail[LastTail].free_following, room - TotalSize(call.size))
     /\ UNCHANGED first_seg

(* The segment becomes the first one, in the gap after the list header. *)
AddBeforeFirst ==
  LET room == (first_seg - Base) - (call.new_a - Base)
  IN /\ first_seg # nullptr /\ get_prev_reference(call.new_a) = start
     /\ Insert(LastTail, tail[LastTail].free_following, room - TotalSize(call.size))
     /\ first_seg' = call.new_a

(* The segment goes into the gap that follows an existing one. *)
AddAfterSegment ==
  LET pred   == head[get_prev_reference(call.new_a)].next_seg_tail
      offset == call.new_a - (pred + SEG_TAIL)
  IN /\ first_seg # nullptr /\ get_prev_reference(call.new_a) # start
     /\ Insert(pred, offset,
               tail[pred].free_following - (offset + TotalSize(call.size)))
     /\ UNCHANGED first_seg

(* The assertions that the chosen gap has the room. *)
GapChecks ==
  first_seg # nullptr =>
    IF get_prev_reference(call.new_a) = start
    THEN first_seg - call.new_a >= TotalSize(call.size)
    ELSE LET pred   == head[get_prev_reference(call.new_a)].next_seg_tail
             offset == call.new_a - (pred + SEG_TAIL)
         IN /\ offset >= 0
            /\ tail[pred].free_following - offset >= TotalSize(call.size)
            /\ pred + SEG_TAIL + tail[pred].free_following <= end_addr

AddEntry ==
  /\ status = "running" /\ call # NoCall
  /\ ASSERT(AddChecks /\ GapChecks,
       /\ AddToEmptyList \/ AddBeforeFirst \/ AddAfterSegment
       /\ last_addr' = NewTail
       /\ call' = NoCall
       /\ UNCHANGED <<brk, start, end_addr>>)

-----------------------------------------------------------------------------
(***************************************************************************)
(* remove_segment, the body of free().                                     *)
(***************************************************************************)

LastAddr_Stale(old_tail, new_tail) == last_addr

(* The segment whose tail was old_tail now ends at new_tail (or is gone,   *)
(* and new_tail is the tail before it): keep last_addr on a live tail.     *)
LastAddr(old_tail, new_tail) == IF last_addr = old_tail THEN new_tail ELSE last_addr

RemoveChecks(h) ==
  /\ h >= Base
  /\ h + SEG_HEAD < end_addr

(* The free bytes that follow the previous segment once h is gone. *)
MergedGap(h) ==
  tail[head[h].prev_seg_tail].free_following
    + TotalSize(head[h].seg_size)
    + tail[head[h].next_seg_tail].free_following

Contraction_ByCeiling(gap) == IF gap > PAGE_SIZE THEN PageCeil(gap) ELSE 0
Contraction_ToTheByte(gap) == IF gap > PAGE_SIZE THEN gap ELSE 0
Contraction_OnePage(gap) == IF gap > PAGE_SIZE THEN PAGE_SIZE ELSE 0

(* How much of the gap at the end of the arena goes back to the kernel. *)
Contraction(gap) == IF gap > PAGE_SIZE THEN PageFloor(gap) ELSE 0

(* Take the segment at h out of the list.  Its predecessor, the last        *)
(* segment when h is the first, is left with `gap' free bytes behind it.    *)
Unlink(h, gap) ==
  LET t    == head[h].next_seg_tail
      pred == head[h].prev_seg_tail
      next == tail[t].next_seg_head
  IN /\ head' = Drop([head EXCEPT ![next].prev_seg_tail = pred], h)
     /\ tail' = Drop([tail EXCEPT ![pred].next_seg_head = next,
                                 ![pred].free_following = gap], t)
     /\ last_addr' = LastAddr(t, pred)

(* Not the first segment: its space joins the gap of the previous one, and *)
(* if that one is now last the arena may contract.                         *)
RemoveInner(h) ==
  LET pred   == head[h].prev_seg_tail
      isLast == NextHead(h) = first_seg \/ pred = LastTail
      shrink == IF isLast THEN Contraction(MergedGap(h)) ELSE 0
  IN /\ h # first_seg
     /\ ASSERT(/\ RemoveChecks(h)
               /\ pred + SEG_TAIL + MergedGap(h) <= end_addr
               /\ shrink <= MergedGap(h)
               /\ shrink > 0 => pred + SEG_TAIL + MergedGap(h) = end_addr,
          /\ Unlink(h, MergedGap(h) - shrink)
          /\ brk' = brk - shrink
          /\ end_addr' = end_addr - shrink
          /\ UNCHANGED <<start, first_seg, call>>)

RemoveOnly_KeepsBreak(h) ==
  LET t == head[h].next_seg_tail
  IN /\ h = first_seg /\ head[h].prev_seg_tail = t
     /\ ASSERT(RemoveChecks(h),
          /\ head' = Drop(head, h)
          /\ tail' = Drop(tail, t)
          /\ first_seg' = nullptr
          /\ end_addr' = Base
          /\ last_addr' = LastAddr(t, nullptr)
          /\ UNCHANGED <<brk, start, call>>)

(* The only segment: reset_list empties the arena, break included. *)
RemoveOnly(h) ==
  LET t == head[h].next_seg_tail
  IN /\ h = first_seg /\ head[h].prev_seg_tail = t
     /\ ASSERT(RemoveChecks(h),
          /\ head' = Drop(head, h)
          /\ tail' = Drop(tail, t)
          /\ first_seg' = nullptr
          /\ end_addr' = Base
          /\ brk' = Base
          /\ last_addr' = LastAddr(t, nullptr)
          /\ UNCHANGED <<start, call>>)

(* The first of several: its space joins the gap before the first segment. *)
RemoveFirst(h) ==
  LET t    == head[h].next_seg_tail
  IN /\ h = first_seg /\ LastTail # t
     /\ ASSERT(/\ RemoveChecks(h)
               /\ LastTailChecks
               /\ NextHead(h) = h + TotalSize(head[h].seg_size) + tail[t].free_following,
          /\ Unlink(h, tail[LastTail].free_following)
          /\ first_seg' = NextHead(h)
          /\ UNCHANGED <<brk, start, end_addr, call>>)

RemoveSegment(h) ==
  /\ Idle /\ h \in Live
  /\ RemoveInner(h) \/ RemoveOnly(h) \/ RemoveFirst(h)

-----------------------------------------------------------------------------
(***************************************************************************)
(* shrink_segment and expand_segment, the in-place halves of realloc().    *)
(***************************************************************************)

MoveTail_CountsUserBytes(h, n) ==
  LET t    == head[h].next_seg_tail
      next == tail[t].next_seg_head
      new  == TailAt(h, n)
  IN /\ head' = [head EXCEPT ![h].next_seg_tail = new, ![h].seg_size = n,
                             ![next].prev_seg_tail = new]
     /\ tail' = Put(Drop(tail, t), new,
                    [next_seg_head |-> next, prev_seg_head |-> h,
                     free_following |-> tail[t].free_following + (head[h].seg_size - n)])
     /\ last_addr' = LastAddr(t, new)

(* The segment at h keeps its place and gets n user bytes: the tail moves. *)
MoveTail(h, n) ==
  LET t    == head[h].next_seg_tail
      next == tail[t].next_seg_head
      new  == TailAt(h, n)
  IN /\ head' = [head EXCEPT ![h].next_seg_tail = new, ![h].seg_size = n,
                             ![next].prev_seg_tail = new]
     /\ tail' = Put(Drop(tail, t), new,
                    [next_seg_head |-> next, prev_seg_head |-> h,
                     free_following |-> (tail[t].free_following + t) - new])
     /\ last_addr' = LastAddr(t, new)

ShrinkSegment(h, n) ==
  /\ Idle /\ h \in Live
  /\ n < head[h].seg_size
  /\ MoveTail(h, n)
  /\ UNCHANGED <<arena, call, status>>

ExpandFits_CountsOverhead(h, n) ==
  round_up(n, ALIGNMENT)
    <= tail[head[h].next_seg_tail].free_following + TotalSize(head[h].seg_size)

(* realloc's test, repeated by expand_segment. *)
ExpandFits(h, n) ==
  round_up(n, ALIGNMENT)
    <= round_up(tail[head[h].next_seg_tail].free_following, ALIGNMENT)
         + round_up(head[h].seg_size, ALIGNMENT)

ExpandSegment(h, n) ==
  /\ Idle /\ h \in Live
  /\ n > head[h].seg_size
  /\ ExpandFits(h, n)
  /\ MoveTail(h, n)
  /\ UNCHANGED <<arena, call, status>>

-----------------------------------------------------------------------------
(* clear_alloc_storage: forget every segment.  Its clients drop theirs.    *)
ClearAllocStorage ==
  /\ Idle /\ start # nullptr
  /\ head' = Empty /\ tail' = Empty
  /\ first_seg' = nullptr
  /\ end_addr' = Base
  /\ brk' = Base
  /\ last_addr' = nullptr
  /\ UNCHANGED <<start, call, status>>

(* set_last_addr(nullptr), which the next-fit tests use to start over. *)
ResetLastAddr ==
  /\ Idle
  /\ last_addr' = nullptr
  /\ UNCHANGED <<arena, head, tail, call, status>>

(* The process is gone. *)
Stopped == status # "running" /\ UNCHANGED vars

Next ==
  \/ \E size \in Sizes : FindFreeSeg(size)
  \/ AddEntry
  \/ \E h \in Live : RemoveSegment(h)
  \/ \E h \in Live, n \in Sizes : ShrinkSegment(h, n) \/ ExpandSegment(h, n)
  \/ ClearAllocStorage
  \/ ResetLastAddr
  \/ Stopped

Spec == Init /\ [][Next]_vars

-----------------------------------------------------------------------------
(***************************************************************************)
(* What the list guarantees.                                               *)
(***************************************************************************)

TypeOK ==
  /\ brk \in Nat /\ start \in Nat /\ first_seg \in Nat /\ end_addr \in Nat
  /\ head \in [Live -> SegHead] /\ Live \subseteq Nat \ {nullptr}
  /\ tail \in [DOMAIN tail -> SegTail] /\ DOMAIN tail \subseteq Nat \ {nullptr}
  /\ last_addr \in Nat
  /\ call \in [new_a : Nat, size : Sizes \cup {0}]
  /\ status \in {"running", "exited", "aborted"}

(* first_seg is the lowest header, and nullptr exactly when there is none. *)
FirstIsLowest ==
  IF Live = {} THEN first_seg = nullptr
  ELSE first_seg \in Live /\ \A h \in Live : Base <= first_seg /\ first_seg <= h

(* Every header and its tail point to each other, at the distance the      *)
(* user size says, and the links between neighbours run both ways: no      *)
(* sequence of inserts, removals and moved tails leaves a stale pointer.   *)
ListLinked ==
  /\ \A h \in Live :
       LET t == head[h].next_seg_tail
           p == head[h].prev_seg_tail
       IN /\ t = TailAt(h, head[h].seg_size)
          /\ t \in DOMAIN tail /\ tail[t].prev_seg_head = h
          /\ NextHead(h) \in Live /\ head[NextHead(h)].prev_seg_tail = t
          /\ p \in DOMAIN tail /\ tail[p].next_seg_head = h
  /\ \A t \in DOMAIN tail :
       tail[t].prev_seg_head \in Live /\ head[tail[t].prev_seg_head].next_seg_tail = t

(* The list is sorted by address and wraps once: the successor of a header *)
(* is the next one above it, and the last one's is first_seg.  Every loop  *)
(* in strats.c takes this for granted.                                     *)
AddressOrder ==
  \A h \in Live :
    \/ NextHead(h) > h /\ \A k \in Live : k <= h \/ k >= NextHead(h)
    \/ NextHead(h) = first_seg /\ \A k \in Live : k <= h

(* free_following is exact in every tail: the free bytes up to the next    *)
(* header, or up to end_addr after the last segment (types.h).             *)
GapAccounting ==
  \A h \in Live :
    LET t == head[h].next_seg_tail
    IN t + SEG_TAIL + tail[t].free_following
         = IF NextHead(h) > h THEN NextHead(h) ELSE end_addr

(* Segments, headers and tails included, lie inside the arena and no two   *)
(* of them share a byte.                                                   *)
SegmentsDisjoint ==
  \A h \in Live :
    LET above == h + TotalSize(head[h].seg_size)
    IN Base <= h /\ above <= end_addr /\ \A k \in Live : k > h => above <= k

(* last_addr never dangles: it is nullptr or the tail of a segment that is *)
(* still there, whichever segment was removed or resized meanwhile.        *)
LastAddrLive == last_addr \in DOMAIN tail \cup {nullptr}

(* Every byte up to end_addr is below the break ("valid to read",          *)
(* types.h), and the two never drift apart by more than create_list's      *)
(* alignment slack.                                                        *)
ArenaBacked == start # nullptr => end_addr <= brk /\ brk <= end_addr + ALIGNMENT

(* The arena is a whole number of pages (README: "expanded, and            *)
(* contracted, in pages").                                                 *)
ArenaInPages == start # nullptr => Base <= end_addr /\ (end_addr - Base) % PAGE_SIZE = 0

(* Once the last segment is freed the whole arena has gone back.           *)
EmptyArenaReturned ==
  Live = {} /\ Idle /\ start # nullptr => end_addr = Base /\ brk = Base

(* Every header and tail, hence every user pointer, is aligned, and so is  *)
(* every gap: realloc compares rounded gap sizes and would otherwise move  *)
(* a tail past the end of its gap.                                         *)
AllAligned ==
  /\ Aligned(start) /\ Aligned(end_addr) /\ Aligned(call.new_a)
  /\ \A h \in Live : Aligned(h)
  /\ \A t \in DOMAIN tail : Aligned(t) /\ Aligned(tail[t].free_following)

(* What find_free_seg returned still fits when add_entry uses it.          *)
CallFits ==
  call # NoCall =>
    /\ start # nullptr
    /\ call.new_a \in FittingGaps(call.size)

(* No ASSERT of memory_mgmt.c or linked_list_mgmt.c ever fires.            *)
NoAbort == status # "aborted"

(* Before the first call there is nothing.                                 *)
Unstarted == start = nullptr => Live = {} /\ call = NoCall /\ brk # 0

(* The inductive invariant of the proofs.                                  *)
IInv ==
  /\ TypeOK /\ Unstarted
  /\ FirstIsLowest /\ ListLinked /\ AddressOrder /\ GapAccounting
  /\ ArenaBacked /\ ArenaInPages /\ AllAligned
  /\ LastAddrLive /\ CallFits /\ NoAbort
=============================================================================
