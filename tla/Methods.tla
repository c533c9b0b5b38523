------------------------------- MODULE Methods -------------------------------
(***************************************************************************)
(* The calls of several threads on an abstract heap.  The segment list is  *)
(* reduced to what Heap says of it: blocks that never overlap, any free    *)
(* address for malloc, and room to grow in place or not.  The contents of  *)
(* a block are kept byte by byte, as the tag of whoever wrote the byte.    *)
(***************************************************************************)
EXTENDS Calls

CONSTANTS
  Writers,    (* bound: the threads that write into their blocks           *)
  Ptrs        (* bound: the user addresses a block can have                *)

ASSUME MethodsAssumption ==
  /\ Writers \subseteq Threads
  /\ nullptr \notin Ptrs

VARIABLES
  blocks,     (* seg_size of every segment, by user address                *)
  mem,        (* the bytes at every address                                *)
  listed      (* start # nullptr: create_list has succeeded                *)

mvars == <<lock, pc, req, blocks, mem, listed, held, status>>

Bytes == {Junk, Zero} \cup Threads
Pointers == Ptrs \cup {nullptr}
Trust == [tag : Bytes, count : Sizes]

MInit ==
  /\ CInit
  /\ blocks = Empty
  /\ mem = [p \in Ptrs |-> [i \in 1..MaxSize |-> Junk]]
  /\ listed = FALSE

HeapUntouched == UNCHANGED <<blocks, mem, listed>>

(* p's first n bytes get tag; the others keep what they have. *)
Fill(p, n, tag) ==
  mem' = [mem EXCEPT ![p] = [i \in 1..MaxSize |-> IF i <= n THEN tag ELSE @[i]]]

(* From byte n on, p's contents are anything. *)
Scribble(p, n) ==
  mem' = [mem EXCEPT ![p] = [i \in 1..MaxSize |-> IF i <= n THEN @[i] ELSE Junk]]

-----------------------------------------------------------------------------
(* find_free_seg: a place, or nullptr when create_list gets no memory for   *)
(* the list header, or exit() when expand_list gets none.                   *)
find_free_seg(t) ==
  /\ \/ /\ \E p \in Ptrs \ DOMAIN blocks : FoundPlace(t, p)
        /\ listed' = TRUE
        /\ UNCHANGED status
     \/ /\ ~ listed
        /\ NoPlace(t)
        /\ UNCHANGED <<listed, status>>
     \/ /\ At(t, "m_find") /\ status' = "exited"
        /\ UNCHANGED <<lock, pc, req, held, listed>>
  /\ UNCHANGED <<blocks, mem>>

add_entry(t) ==
  /\ EntryAdded(t, req[t].place)
  /\ blocks' = Put(blocks, req[t].place, req[t].size)
  /\ Scribble(req[t].place, 0)
  /\ UNCHANGED <<listed, status>>

set_mem_zero_OneElement(t) ==
  /\ MemZeroed(t)
  /\ Fill(req[t].new_a, 1, Zero)
  /\ UNCHANGED <<blocks, listed, status>>

(* calloc zeroes n_memb * size bytes after the lock is released. *)
set_mem_zero(t) ==
  /\ MemZeroed(t)
  /\ Fill(req[t].new_a, req[t].size, Zero)
  /\ UNCHANGED <<blocks, listed, status>>

remove_segment(t) ==
  /\ SegmentRemoved(t)
  /\ blocks' = Drop(blocks, req[t].ptr)
  /\ Scribble(req[t].ptr, 0)
  /\ UNCHANGED <<listed, status>>

(* get_segment_size, before the lock is taken. *)
ReadSize(t) ==
  /\ SizeKnown(t, blocks[req[t].ptr])
  /\ HeapUntouched /\ UNCHANGED status

(* The block at req[t].ptr gets n bytes; its tail moves, so what is behind  *)
(* the first `kept' bytes is anything.                                      *)
Resized(t, n, kept) ==
  /\ blocks' = [blocks EXCEPT ![req[t].ptr] = n]
  /\ Scribble(req[t].ptr, kept)
  /\ UNCHANGED <<listed, status>>

shrink_segment_AddsDelta(t) ==
  /\ SegmentShrunk(t)
  /\ Resized(t, blocks[req[t].ptr] + (req[t].old_size - req[t].size), req[t].size)

shrink_segment_RefusesHalf(t) ==
  \/ /\ req[t].old_size - req[t].size < req[t].size
     /\ SegmentShrunk(t)
     /\ Resized(t, blocks[req[t].ptr] - (req[t].old_size - req[t].size), req[t].size)
  \/ /\ req[t].old_size - req[t].size >= req[t].size
     /\ At(t, "s_shrink") /\ Refused(t)
     /\ HeapUntouched /\ UNCHANGED status

(* shrink_segment and expand_segment get the difference of the two sizes.  *)
shrink_segment(t) ==
  /\ SegmentShrunk(t)
  /\ Resized(t, blocks[req[t].ptr] - (req[t].old_size - req[t].size), req[t].size)

expand_segment_SizeFirst(t) ==
  /\ SegmentExpanded(t) \/ NoRoom(t)
  /\ Resized(t, blocks[req[t].ptr] + (req[t].size - req[t].old_size), req[t].old_size)

(* The gap behind the segment has the room, or it has not. *)
expand_segment(t) ==
  \/ /\ SegmentExpanded(t)
     /\ Resized(t, blocks[req[t].ptr] + (req[t].size - req[t].old_size), req[t].old_size)
  \/ NoRoom(t) /\ HeapUntouched /\ UNCHANGED status

(* copy_mem copies old_size bytes. *)
copy_mem(t) ==
  LET r == req[t]
  IN /\ MemCopied(t)
     /\ mem' = [mem EXCEPT ![r.new_a] =
          [i \in 1..MaxSize |-> IF i <= r.old_size THEN mem[r.ptr][i] ELSE @[i]]]
     /\ UNCHANGED <<blocks, listed, status>>

(* The owner fills its block, all of it. *)
Write(t, p) ==
  /\ t \in Writers /\ p \in DOMAIN blocks
  /\ Filled(t, p, blocks[p])
  /\ Fill(p, blocks[p], t)
  /\ UNCHANGED <<blocks, listed>>

-----------------------------------------------------------------------------
(* A step of a call under way, taking the lock excepted. *)
Step(t) ==
  \/ find_free_seg(t) \/ add_entry(t) \/ set_mem_zero(t)
  \/ remove_segment(t)
  \/ ReadSize(t) \/ shrink_segment(t) \/ expand_segment(t) \/ copy_mem(t)
  \/ ControlStep(t) /\ HeapUntouched

Acquire(t) == TakeLock(t) /\ HeapUntouched

Client(t) ==
  \/ /\ \/ \E n \in Sizes : malloc(t, n) \/ calloc(t, n)
        \/ \E p \in Owned(t) \cup {nullptr} :
             free(t, p) \/ \E n \in Sizes : realloc(t, p, n)
        \/ \E p \in Owned(t), u \in Threads : HandOver(t, u, p)
     /\ HeapUntouched
  \/ \E p \in Owned(t) : Write(t, p)

Stopped == status = "exited" /\ UNCHANGED mvars

MNext == (\E t \in Threads : Step(t) \/ Acquire(t) \/ Client(t)) \/ Stopped

(* The scheduler runs every thread, and a thread that waits for the lock   *)
(* gets it if it stays free; nothing says that waiting threads take turns, *)
(* nor that a client ever makes another call.                              *)
MFairness == \A t \in Threads : WF_mvars(Step(t)) /\ WF_mvars(Acquire(t))

MSpec == MInit /\ [][MNext]_mvars /\ MFairness

-----------------------------------------------------------------------------
(***************************************************************************)
(* What the clients rely on.                                               *)
(***************************************************************************)
MTypeOK ==
  /\ lock \in Threads \cup {NoThread}
  /\ pc \in [Threads -> Places]
  /\ req \in [Threads -> [op : {"none", "malloc", "calloc", "free", "realloc"},
                          ptr : Pointers, size : Sizes, old_size : Sizes,
                          place : Pointers, new_a : Pointers, result : Pointers,
                          trust : Trust]]
  /\ DOMAIN blocks \subseteq Ptrs /\ \A p \in DOMAIN blocks : blocks[p] \in Sizes \ {0}
  /\ mem \in [Ptrs -> [1..MaxSize -> Bytes]]
  /\ listed \in BOOLEAN
  /\ DOMAIN held \subseteq Ptrs
  /\ \A p \in DOMAIN held : held[p] \in [by : Threads, trust : Trust]
  /\ status \in {"running", "exited"}

(* The list is only touched by the one thread that holds storage_lock, and *)
(* no path through the four functions forgets to release it.               *)
LockDiscipline == \A t \in Threads : pc[t] \in Critical <=> lock = t

(* The blocks a call under way is responsible for. *)
InFlight(t) == {req[t].ptr, req[t].new_a} \ {nullptr}

(* No block is leaked, returned to two clients or left with a client after *)
(* it was freed: every block has one client as its owner, or one call that *)
(* works on it.                                                            *)
EveryBlockAccounted ==
  /\ DOMAIN blocks = DOMAIN held \cup UNION {InFlight(t) : t \in Threads}
  /\ \A t \in Threads : InFlight(t) \cap DOMAIN held = {}
  /\ \A t, u \in Threads : t # u => InFlight(t) \cap InFlight(u) = {}

(* A block holds what its owner last wrote, up to the lesser of all sizes  *)
(* it had since; after calloc it holds zeroes.  The unlocked zeroing and   *)
(* copying never meets another thread's block or a block already freed.    *)
DataIntact ==
  \A p \in DOMAIN held :
    /\ p \in DOMAIN blocks /\ held[p].trust.count <= blocks[p]
    /\ \A i \in 1..held[p].trust.count : mem[p][i] = held[p].trust.tag

(* The size realloc reads before it takes the lock is still the segment's  *)
(* size when shrink_segment, expand_segment and copy_mem use it.           *)
OldSizeStillTrue ==
  \A t \in Threads :
    pc[t] \in {"s_lock", "s_shrink", "e_lock", "e_expand", "r_copy"}
      => blocks[req[t].ptr] = req[t].old_size

(* Without memory a call returns: malloc's comment says that "sbrk failed. *)
(* Return a nullptr in this case" (methods.c:55), so no call may end the   *)
(* process.                                                                *)
NullWhenNoMemory == status = "running"

(* The gap find_free_seg found is still free when add_entry takes it.      *)
PlaceStillFree == \A t \in Threads : pc[t] = "m_add" => req[t].place \notin DOMAIN blocks

Done == status = "exited"

(* As long as some thread is in a call, calls keep returning.              *)
SomeCallReturns ==
  []<>(Done \/ (\A t \in Threads : pc[t] = "idle") \/ (\E t \in Threads : pc[t] = "ret"))

(* A call returns once the other threads have stopped calling.             *)
CallReturns ==
  \A t \in Threads :
    <>[](\A u \in Threads \ {t} : pc[u] = "idle")
      => [](pc[t] # "idle" => <>(pc[t] = "idle" \/ Done))

-----------------------------------------------------------------------------
(***************************************************************************)
(* The calls, as their callers see them.  A call works on its result once  *)
(* there is one, before that on its argument.                              *)
(***************************************************************************)
BlockOf(t) == IF req[t].result # nullptr THEN req[t].result ELSE req[t].ptr

(* The user bytes of the block at p. *)
UserData(p) == [i \in 1..blocks[p] |-> mem[p][i]]

OwnedBlocks == [p \in DOMAIN held |-> [by |-> held[p].by, data |-> UserData(p)]]

CallsSeen ==
  [t \in Threads |->
    [op |-> req[t].op, size |-> req[t].size, block |-> BlockOf(t),
     data |-> IF BlockOf(t) = nullptr THEN Empty ELSE UserData(BlockOf(t)),
     done |-> req[t].result # nullptr]]

API == INSTANCE MallocAPI WITH owned <- OwnedBlocks, calls <- CallsSeen

(* Every call takes effect at one instant between its invocation and its    *)
(* return, whatever the other threads do: malloc when it gives the lock     *)
(* back, calloc with its last zero, free in remove_segment, realloc when   *)
(* it has read the size, resized the segment or copied the block.          *)
ImplementsAPI == API!APISpec
=============================================================================
