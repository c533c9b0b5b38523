----------------------------- MODULE TestScripts -----------------------------
(***************************************************************************)
(* The programs under unittests/ as sequences of the calls they make, with *)
(* the address each result is compared with.  A slot is a pointer variable *)
(* of the test; an address is given as the distance from what another slot *)
(* held.  Loops over every size up to STORAGE_SIZE_TESTING are cut down to *)
(* the counters in Rounds.                                                 *)
(***************************************************************************)
EXTENDS AllocDefs, Sequences, FiniteSets
LOCAL INSTANCE SequencesExt

CONSTANTS
  STORAGE_SIZE_TESTING,   (* 10000                                         *)
  Rounds                  (* bound: the loop counters the tests go through, *)
                          (* in ascending order                            *)

Overhead == SEG_HEAD + SEG_TAIL

(* at: the slot and distance the result must have, if the test says.        *)
(* as: what realloc's result must be, "same", "moved" or "any".            *)
NoOp == [do |-> "nothing", slot |-> <<"none", 0>>, size |-> 0, at |-> {}, as |-> "any",
         strat |-> "first_fit"]

Malloc(slot, n) == [NoOp EXCEPT !.do = "malloc", !.slot = slot, !.size = n]
MallocAt(slot, n, base, offset) == [Malloc(slot, n) EXCEPT !.at = {<<base, offset>>}]
Realloc(slot, n, as) == [NoOp EXCEPT !.do = "realloc", !.slot = slot, !.size = n, !.as = as]
Free(slot) == [NoOp EXCEPT !.do = "free", !.slot = slot]
Clear == [NoOp EXCEPT !.do = "clear_alloc_storage"]
ForgetLast == [NoOp EXCEPT !.do = "set_last_addr"]
Use(strat) == [NoOp EXCEPT !.do = "set_alloc_function", !.strat = strat]

Addr(k) == <<"addr", k>>
Segment(i) == <<"segments", i>>
Barrier(i) == <<"barrier", i>>
Anchor == <<"anchor", 0>>
Temp == <<"temp", 0>>

FreeAtOnce(n) == <<Malloc(Temp, n), Free(Temp)>>

(* for (i = first; i <= last; i++) Body(i) *)
For(first, last, Body(_)) == FlattenSeq([k \in 1 .. last - first + 1 |-> Body(first + k - 1)])

(* The same loop, with the counters in Rounds only. *)
ForRounds(first, last, Body(_)) ==
  LET rounds == SelectSeq(Rounds, LAMBDA i : first <= i /\ i <= last)
  IN FlattenSeq([k \in 1 .. Len(rounds) |-> Body(rounds[k])])

-----------------------------------------------------------------------------
(* The grid tests: gaps of 1, 2, 3, ... bytes with barriers of 1 byte.     *)
sum_aligned[n \in Nat] ==
  IF n = 0 THEN 0 ELSE sum_aligned[n - 1] + round_up(n, ALIGNMENT)

GridFits(n) ==
  sum_aligned[n + 1] + n * ALIGNMENT + (2 * n + 1) * Overhead <= STORAGE_SIZE_TESTING

num_gaps == CHOOSE n \in 0 .. STORAGE_SIZE_TESTING :
              ~ GridFits(n) /\ \A k \in 0 .. n - 1 : GridFits(k)

(* Where segment i and barrier i lie, from the first user address.         *)
SegmentAt(i) == sum_aligned[i] + i * ALIGNMENT + 2 * i * Overhead
BarrierAt(i) == sum_aligned[i + 1] + i * ALIGNMENT + (2 * i + 1) * Overhead

MakeGrid ==
  LET Pair(i) == <<MallocAt(Segment(i), i + 1, Anchor, SegmentAt(i)),
                   [MallocAt(Barrier(i), 1, Anchor, BarrierAt(i)) EXCEPT
                      !.at = @ \cup {<<Segment(i), round_up(i + 1, ALIGNMENT) + Overhead>>}]>>
  IN <<Malloc(Anchor, 1), Free(Anchor)>> \o For(0, num_gaps - 2, Pair)
       \o <<MallocAt(Segment(num_gaps - 1), num_gaps, Anchor, SegmentAt(num_gaps - 1))>>
       \o For(0, num_gaps - 1, LAMBDA i : <<Free(Segment(i))>>)

(* Every size lands in the gap made for it. *)
FillGrid ==
  For(0, num_gaps - 1, LAMBDA i : <<MallocAt(Addr(i), i + 1, Anchor, SegmentAt(i))>>)

firstfit == <<Use("first_fit")>> \o MakeGrid \o FillGrid

(* worst_fit takes the last and largest gap. *)
worstfit ==
  <<Use("worst_fit")>> \o MakeGrid
    \o <<MallocAt(Addr(0), 1, Anchor, SegmentAt(num_gaps - 1)), Free(Addr(0))>>

round_down(n, multiple) == n - (n % multiple)

(* bestfit.c builds its grid from the end of the arena.                    *)
FromTheEnd(k, gaps) ==
  STORAGE_SIZE_TESTING - (sum_aligned[k] + gaps * ALIGNMENT)

bestfit ==
  LET Pair(i) == <<MallocAt(Temp, FromTheEnd(i + 1, i + 1) - (2 * (i + 1) + 1) * Overhead,
                            Anchor, 0),
                   MallocAt(Barrier(i), 1, Anchor,
                            FromTheEnd(i + 1, i + 1) - 2 * (i + 1) * Overhead),
                   Free(Temp)>>
      Fill(i) == LET n == round_up(i + 1, ALIGNMENT)
                 IN <<MallocAt(Addr(i), i + 1, Anchor,
                               FromTheEnd(n, n - 1) - (2 * (n - 1) + 1) * Overhead),
                      Free(Addr(i))>>
  IN <<Use("first_fit"), Malloc(Anchor, 1), Free(Anchor)>>
       \o FreeAtOnce(STORAGE_SIZE_TESTING - Overhead)
       \o For(0, num_gaps - 2, Pair)
       \o <<Use("best_fit")>> \o For(0, round_down(num_gaps - 1, ALIGNMENT) - 1, Fill)

(* nextfit.c *)
grid_test_simple ==
  <<Use("first_fit")>> \o MakeGrid \o <<Use("next_fit"), ForgetLast>> \o FillGrid

grid_test_complex ==
  LET first == ALIGNMENT + Overhead
      Three(i) == <<MallocAt(Addr(i), i + 1, Anchor, first + SegmentAt(i)),
                    MallocAt(Barrier(i), 1, Anchor, first + BarrierAt(i)),
                    MallocAt(Temp, 1, Anchor, first + SegmentAt(i + 1)),
                    Free(Temp)>>
  IN <<Use("next_fit"), Malloc(Anchor, 1)>> \o FreeAtOnce(STORAGE_SIZE_TESTING)
       \o For(0, num_gaps - 2, Three)

NextFitAnew == <<Use("next_fit"), ForgetLast>>

next_fit_two_segments ==
  NextFitAnew \o <<Malloc(Addr(1), 1), MallocAt(Addr(2), 1, Addr(1), ALIGNMENT + Overhead)>>

(* Behind the last allocation, not in the gap before it. *)
next_fit_after_last ==
  NextFitAnew \o FreeAtOnce(200)
    \o <<Malloc(Addr(1), 100), Malloc(Addr(2), 1), Free(Addr(1)),
         MallocAt(Addr(3), 1, Addr(2), ALIGNMENT + Overhead)>>

(* Around the end, before the arena is expanded. *)
next_fit_after_last_first ==
  NextFitAnew \o FreeAtOnce(PAGE_SIZE - Overhead)
    \o <<Malloc(Addr(1), PAGE_SIZE \div 2), Malloc(Addr(2), 1), Free(Addr(1)),
         MallocAt(Addr(3), PAGE_SIZE \div 2, Addr(1), 0)>>

nextfit ==
  grid_test_simple \o <<Clear>> \o next_fit_two_segments \o <<Clear>> \o next_fit_after_last
    \o <<Clear>> \o next_fit_after_last_first \o <<Clear>> \o grid_test_complex

-----------------------------------------------------------------------------
(* components/: add_entry.c, remove_entry.c, expand_list.c.                *)
Three(n) == [k \in 1..n |-> Malloc(Addr(k), 1)]

alloc_empty_list == ForRounds(1, STORAGE_SIZE_TESTING - 1, LAMBDA i : FreeAtOnce(1))

(* Free the k-th of n segments: the next one comes to the same place.      *)
alloc_again(n, k) == Three(n) \o <<Free(Addr(k)), MallocAt(Temp, 1, Addr(k), 0)>>

add_entry ==
  <<Use("first_fit")>> \o alloc_empty_list \o <<Clear>> \o alloc_again(2, 1)
    \o <<Clear>> \o alloc_again(2, 2) \o <<Clear>> \o alloc_again(3, 2)

remove_entry ==
  <<Use("first_fit")>> \o Three(2) \o <<Free(Addr(2)), Clear>>
    \o Three(3) \o <<Free(Addr(2)), Clear>>
    \o Three(2) \o <<Free(Addr(1)), Clear>>
    \o Three(1) \o <<Free(Addr(1))>>

expand_empty_list ==
  ForRounds(1, STORAGE_SIZE_TESTING - 1, LAMBDA i : FreeAtOnce(i) \o <<Clear>>)

expand_full_list ==
  ForRounds(1, STORAGE_SIZE_TESTING - 1, LAMBDA i : <<Malloc(Addr(0), i)>>)

expand_not_full_list ==
  FreeAtOnce(2) \o <<Malloc(Addr(0), 1)>>
    \o ForRounds(2, STORAGE_SIZE_TESTING - 1,
                 LAMBDA i : FreeAtOnce(i))

expand_free_existing_list == ForRounds(1, STORAGE_SIZE_TESTING - 1, FreeAtOnce)

expand_list_c ==
  <<Use("first_fit")>> \o expand_empty_list \o <<Clear>> \o expand_full_list \o <<Clear>>
    \o expand_not_full_list \o <<Clear>> \o expand_free_existing_list

-----------------------------------------------------------------------------
(* alloc/: alignment.c, malloc.c (calloc.c and free.c make the same calls:  *)
(* their inner loops count i, so nothing but the anchor is ever freed) and *)
(* realloc.c.                                                              *)
alignment == ForRounds(0, 999, LAMBDA i : <<Malloc(Addr(0), i)>>)

malloc_c ==
  FreeAtOnce(1) \o ForRounds(1, STORAGE_SIZE_TESTING, LAMBDA i : <<Malloc(Addr(0), i)>>)

(* Two blocks shrink and grow in place; a block in front of a barrier has   *)
(* to move; a block grows on and on.                                       *)
realloc_c ==
  LET Both(n) == <<Realloc(Addr(1), n, "same"), Realloc(Addr(2), n, "same")>>
      Move(i) == <<Malloc(Temp, round_up(i, ALIGNMENT)), Malloc(Barrier(0), 1),
                   Realloc(Temp, round_up(i, ALIGNMENT) + 1, "moved"),
                   Free(Temp), Free(Barrier(0))>>
  IN <<Malloc(Addr(1), STORAGE_SIZE_TESTING), Malloc(Addr(2), STORAGE_SIZE_TESTING)>>
       \o ForRounds(1, STORAGE_SIZE_TESTING - 1, LAMBDA i : Both(STORAGE_SIZE_TESTING - i))
       \o ForRounds(2, STORAGE_SIZE_TESTING, Both)
       \o <<Free(Addr(1)), Free(Addr(2))>>
       \o ForRounds(1, (STORAGE_SIZE_TESTING \div 2) - ALIGNMENT - 1, Move)
       \o <<Malloc(Addr(1), 1)>>
       \o ForRounds(2, STORAGE_SIZE_TESTING, LAMBDA i : <<Realloc(Addr(1), i, "any")>>)
       \o ForRounds(STORAGE_SIZE_TESTING \div 10 + 1, STORAGE_SIZE_TESTING,
                    LAMBDA i : <<Realloc(Addr(1), 10 * i, "any")>>)

Script ==
  [firstfit |-> firstfit, worstfit |-> worstfit, bestfit |-> bestfit, nextfit |-> nextfit,
   add_entry |-> add_entry, remove_entry |-> remove_entry, expand_list |-> expand_list_c,
   alignment |-> alignment, malloc |-> malloc_c, realloc |-> realloc_c]
=============================================================================
