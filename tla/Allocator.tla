------------------------------ MODULE Allocator ------------------------------
(***************************************************************************)
(* The allocator put together: the calls of several threads (Calls, the    *)
(* control of methods.c) on the segment list (SegList, memory_mgmt.c) in   *)
(* an arena whose bytes are modelled one by one, the structs of the list   *)
(* lying between the user bytes.  A byte holds the tag of whoever wrote    *)
(* it: "struct" for the list, Zero for set_mem_zero, a thread for the      *)
(* clients, Junk where nobody can rely on the contents (user bytes not yet *)
(* written, padding, gaps, memory that is not part of the arena).          *)
(***************************************************************************)
EXTENDS Calls

CONSTANTS
  ALIGNMENT, PAGE_SIZE, LIST_HEAD, SEG_HEAD, SEG_TAIL,
  InitialBreaks,  (* values sbrk(0) may have before the first call         *)
  BreakLimit,     (* bound: the kernel never grants a break above it       *)
  MaxBlocks,      (* bound: clients own at most this many blocks           *)
  Writers         (* bound: the threads that write into their blocks       *)

VARIABLES
  brk, start, first_seg, end_addr, head, tail, last_addr, call,
  bytes           (* the tag of the byte at every address                  *)

(* A block that realloc moves is there twice for a while. *)
L == INSTANCE SegList WITH Sizes <- Sizes \ {0}, MaxSegs <- 2 * MaxBlocks

Struct == "struct"

ASSUME AllocatorAssumption ==
  /\ Writers \subseteq Threads
  /\ Struct \notin Threads \cup {Junk, Zero}

(* What AllocDefs and SegList assume of the layout and the break. *)
ASSUME ArenaAssumption ==
  /\ ALIGNMENT \in Nat \ {0}
  /\ PAGE_SIZE \in Nat \ {0} /\ PAGE_SIZE % ALIGNMENT = 0
  /\ LIST_HEAD \in Nat \ {0} /\ LIST_HEAD % ALIGNMENT = 0
  /\ SEG_HEAD \in Nat \ {0} /\ SEG_HEAD % ALIGNMENT = 0
  /\ SEG_TAIL \in Nat \ {0} /\ SEG_TAIL % ALIGNMENT = 0
  /\ InitialBreaks \subseteq Nat \ {0} /\ BreakLimit \in Nat /\ MaxBlocks \in Nat

control  == <<lock, pc, req, held>>
list     == <<brk, start, first_seg, end_addr, head, tail, last_addr, call>>
avars    == <<lock, pc, req, held, status, brk, start, first_seg, end_addr, head, tail,
              last_addr, call, bytes>>

AInit ==
  /\ CInit /\ L!Init
  /\ bytes = [a \in 1..BreakLimit |-> Junk]

(* b with v in the n bytes from a on. *)
Paint(b, a, n, v) == [i \in DOMAIN b |-> IF a <= i /\ i < a + n THEN v ELSE b[i]]

(* The header a user pointer belongs to. *)
HeaderOf(p) == p - SEG_HEAD

ListUntouched == UNCHANGED list

-----------------------------------------------------------------------------
(* find_free_seg.  The first call also writes the list header.             *)
find_free_seg(t) ==
  /\ At(t, "m_find")
  /\ \/ /\ L!FindFreeSeg(req[t].size)
        /\ IF status' = "running" THEN FoundPlace(t, call'.new_a) ELSE UNCHANGED control
        /\ bytes' = IF start = nullptr /\ start' # nullptr
                    THEN Paint(bytes, start', LIST_HEAD, Struct) ELSE bytes
     \/ /\ start = nullptr /\ NoPlace(t)
        /\ ListUntouched /\ UNCHANGED <<bytes, status>>

(* add_entry writes the new segment's header and tail. *)
add_entry(t) ==
  LET h == req[t].place
  IN /\ L!AddEntry
     /\ EntryAdded(t, h + SEG_HEAD)
     /\ bytes' = Paint(Paint(bytes, h, SEG_HEAD, Struct), L!NewTail, SEG_TAIL, Struct)

set_mem_zero_OneTooMany(t) ==
  /\ MemZeroed(t)
  /\ bytes' = Paint(bytes, req[t].new_a, req[t].size + 1, Zero)
  /\ ListUntouched /\ UNCHANGED status

(* set_mem_zero, after the lock is released. *)
set_mem_zero(t) ==
  /\ MemZeroed(t)
  /\ bytes' = Paint(bytes, req[t].new_a, req[t].size, Zero)
  /\ ListUntouched /\ UNCHANGED status

(* remove_segment: the segment's bytes are free space. *)
remove_segment(t) ==
  LET h == HeaderOf(req[t].ptr)
  IN /\ SegmentRemoved(t)
     /\ L!RemoveSegment(h)
     /\ bytes' = Paint(bytes, h, L!TotalSize(head[h].seg_size), Junk)

(* get_segment_size, before the lock is taken. *)
ReadSize(t) ==
  /\ SizeKnown(t, head[HeaderOf(req[t].ptr)].seg_size)
  /\ ListUntouched /\ UNCHANGED <<bytes, status>>

(* The segment at h gets n user bytes: the first ones keep what they have, *)
(* the tail moves, and what lay between is anything.                       *)
MovedTail(h, n) ==
  LET old  == head[h].next_seg_tail
      new  == L!TailAt(h, n)
      kept == h + SEG_HEAD + (IF n < head[h].seg_size THEN n ELSE head[h].seg_size)
      end  == (IF old < new THEN new ELSE old) + SEG_TAIL
  IN bytes' = Paint(Paint(bytes, kept, end - kept, Junk), new, SEG_TAIL, Struct)

(* ERROR: nothing changes but the thread's place. *)
Error(t) == Refused(t) /\ ListUntouched /\ UNCHANGED <<bytes, status>>

(* shrink_segment gets the difference of the two sizes, and refuses when    *)
(* the segment is not that large.                                          *)
shrink_segment(t) ==
  LET h    == HeaderOf(req[t].ptr)
      diff == req[t].old_size - req[t].size
  IN /\ At(t, "s_shrink")
     /\ IF diff > head[h].seg_size THEN Error(t)
        ELSE /\ SegmentShrunk(t)
             /\ L!ShrinkSegment(h, head[h].seg_size - diff)
             /\ MovedTail(h, head[h].seg_size - diff)

(* realloc's own test of the gap, with the size it read before it took the *)
(* lock.                                                                   *)
RoomToExpand(h, old_size, size) ==
  L!round_up(size, ALIGNMENT)
    <= L!round_up(tail[head[h].next_seg_tail].free_following, ALIGNMENT)
         + L!round_up(old_size, ALIGNMENT)

(* expand_segment gets the difference, and makes the same test with the    *)
(* size in the header.                                                     *)
expand_segment(t) ==
  LET r == req[t]
      h == HeaderOf(r.ptr)
      n == head[h].seg_size + (r.size - r.old_size)
  IN /\ At(t, "e_expand")
     /\ IF ~ RoomToExpand(h, r.old_size, r.size)
        THEN NoRoom(t) /\ ListUntouched /\ UNCHANGED <<bytes, status>>
        ELSE IF ~ L!ExpandFits(h, n) THEN Error(t)
        ELSE SegmentExpanded(t) /\ L!ExpandSegment(h, n) /\ MovedTail(h, n)

copy_mem_Backwards(t) ==
  LET r == req[t]
  IN /\ MemCopied(t)
     /\ bytes' = [a \in DOMAIN bytes |->
          IF r.ptr <= a /\ a < r.ptr + r.old_size
          THEN bytes[r.new_a + (a - r.ptr)] ELSE bytes[a]]
     /\ ListUntouched /\ UNCHANGED status

(* copy_mem copies old_size bytes, unless it would overwrite what it has   *)
(* not read yet.                                                           *)
copy_mem(t) ==
  LET r == req[t]
  IN /\ At(t, "r_copy")
     /\ IF r.ptr + r.old_size > r.new_a /\ r.new_a > r.ptr THEN Error(t)
        ELSE /\ MemCopied(t)
             /\ bytes' = [a \in DOMAIN bytes |->
                  IF r.new_a <= a /\ a < r.new_a + r.old_size
                  THEN bytes[r.ptr + (a - r.new_a)] ELSE bytes[a]]
             /\ ListUntouched /\ UNCHANGED status

(* The owner fills its block, all of it. *)
Write(t, p) ==
  LET n == head[HeaderOf(p)].seg_size
  IN /\ t \in Writers
     /\ Filled(t, p, n)
     /\ bytes' = Paint(bytes, p, n, t)
     /\ ListUntouched

-----------------------------------------------------------------------------
Step(t) ==
  \/ find_free_seg(t) \/ add_entry(t) \/ set_mem_zero(t)
  \/ remove_segment(t)
  \/ ReadSize(t) \/ shrink_segment(t) \/ expand_segment(t) \/ copy_mem(t)
  \/ ControlStep(t) /\ ListUntouched /\ UNCHANGED bytes

Acquire(t) == TakeLock(t) /\ ListUntouched /\ UNCHANGED bytes

(* Every call under way may end with a block of its own. *)
MayAllocate ==
  Cardinality(DOMAIN held) + Cardinality({t \in Threads : pc[t] # "idle"}) < MaxBlocks

(* A block stays with the thread that got it; Methods hands blocks over.   *)
Client(t) ==
  \/ /\ \/ MayAllocate /\ \E n \in Sizes : malloc(t, n) \/ calloc(t, n)
        \/ \E p \in Owned(t) \cup {nullptr} :
             \/ free(t, p)
             \/ \E n \in Sizes : realloc(t, p, n) /\ (p = nullptr => MayAllocate)
     /\ ListUntouched /\ UNCHANGED bytes
  \/ \E p \in Owned(t) : Write(t, p)

Stopped == status = "exited" /\ UNCHANGED avars

ANext == (\E t \in Threads : Step(t) \/ Acquire(t) \/ Client(t)) \/ Stopped

ASpec == AInit /\ [][ANext]_avars

-----------------------------------------------------------------------------
(***************************************************************************)
(* What the whole allocator guarantees.                                    *)
(***************************************************************************)

(* Types; no ASSERT has ended the process. *)
ATypeOK ==
  /\ lock \in Threads \cup {NoThread}
  /\ pc \in [Threads -> Places]
  /\ bytes \in [1..BreakLimit -> {Junk, Zero, Struct} \cup Threads]
  /\ \A t \in Threads : req[t].ptr \in Nat /\ req[t].place \in Nat /\ req[t].new_a \in Nat
  /\ status \in {"running", "exited"}

Holds(a, n, v) == \A i \in a .. a + n - 1 : bytes[i] = v

(* Bookkeeping and user data never damage each other: every byte of every  *)
(* header and tail was last written by the list, and every byte a client   *)
(* relies on was last written on that client's behalf.  The unlocked       *)
(* zeroing and copying, the tails that move inside a gap and the structs   *)
(* of new segments all keep to their own bytes.                            *)
MemoryIntact ==
  /\ start # nullptr => Holds(start, LIST_HEAD, Struct)
  /\ \A h \in L!Live : Holds(h, SEG_HEAD, Struct)
  /\ \A u \in DOMAIN tail : Holds(u, SEG_TAIL, Struct)
  /\ \A p \in DOMAIN held : Holds(p, held[p].trust.count, held[p].trust.tag)

(* No thread is ever stuck inside a call: unless it waits for the lock, it *)
(* can take its next step.  In particular the gap found by find_free_seg   *)
(* is still there for add_entry, the pointer given to free and realloc is  *)
(* still a segment, and realloc's arguments to shrink_segment and          *)
(* expand_segment are still valid, whatever the other threads did.         *)
NeverStuck ==
  status = "running" =>
    \A t \in Threads :
      pc[t] \notin {"idle", "m_lock", "f_lock", "s_lock", "e_lock"} => ENABLED Step(t)

-----------------------------------------------------------------------------
(* The abstract heap of Methods: the blocks of the list and their bytes.   *)
UserAddresses == {a \in 1..BreakLimit : a % ALIGNMENT = 0}

Blocks == [p \in {h + SEG_HEAD : h \in L!Live} |-> head[HeaderOf(p)].seg_size]

Contents ==
  [p \in UserAddresses |->
    [i \in 1..MaxSize |->
      IF p \in DOMAIN Blocks /\ i <= Blocks[p] THEN bytes[p + i - 1] ELSE Junk]]

(* find_free_seg returns the address of the header to be, not the user's.  *)
UserPlace(r) == [r EXCEPT !.place = IF @ = nullptr THEN nullptr ELSE @ + SEG_HEAD]

Requests == [t \in Threads |-> UserPlace(req[t])]

M == INSTANCE Methods
       WITH Ptrs <- UserAddresses, blocks <- Blocks, mem <- Contents,
            listed <- (start # nullptr), req <- Requests

(* The calls on the segment list behave as on the abstract heap of Methods, *)
(* whose guarantees (no block leaked or shared, data intact) therefore     *)
(* hold of the real list as well.                                          *)
ImplementsMethods == M!MInit /\ [][M!MNext]_(M!mvars)
=============================================================================
