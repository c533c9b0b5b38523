------------------------------- MODULE Strats -------------------------------
(***************************************************************************)
(* The four allocation strategies of strats.c, one loop iteration per      *)
(* step, on the segment list of SegList.  find_free_seg calls the one that *)
(* g_alloc_function points to; its result becomes `call', or, when it is   *)
(* nullptr, expand_list runs.  storage_lock is held throughout, so no      *)
(* other operation starts before the search is over.                       *)
(***************************************************************************)
EXTENDS SegList

VARIABLES
  g_alloc_function,   (* the strategy in use                               *)
  scan                (* the local variables of a running search           *)

svars == <<brk, start, first_seg, end_addr, head, tail, last_addr, call, status,
           g_alloc_function, scan>>

Strategies == {"best_fit", "worst_fit", "first_fit", "next_fit"}

(* alg runs on its loop ("loop"), next_fit's second loop ("wrap") or is    *)
(* about to return addr ("done"); iter is the loop's tail, and gap the     *)
(* size of the best gap so far.                                            *)
NoScan == [alg |-> "none", size |-> 0, pass |-> "idle",
           iter |-> nullptr, addr |-> nullptr, gap |-> 0]

Unscanned == UNCHANGED <<g_alloc_function, scan>>
ListUntouched == UNCHANGED <<arena, head, tail, last_addr, call>>

SInit == Init /\ g_alloc_function = "next_fit" /\ scan = NoScan

-----------------------------------------------------------------------------
(* The tail an iterator moves to from t. *)
Following(t) == head[tail[t].next_seg_head].next_seg_tail

LoopGoesOn_AtFirstTail(t) == head[tail[t].prev_seg_head].prev_seg_tail <= t

(* The do-while condition, after moving to t: t is not the first tail. *)
LoopGoesOn(t) == head[tail[t].prev_seg_head].prev_seg_tail < t

Fits_NotExactly(gap) == gap > TotalSize(scan.size)

Fits(gap) == gap >= TotalSize(scan.size)

Return(addr) == scan' = [scan EXCEPT !.addr = addr, !.pass = "done"]

(* A strategy is called: everything before its first loop. *)
StartScan(size) ==
  LET alg   == IF g_alloc_function = "next_fit" /\ last_addr = nullptr
               THEN "first_fit" ELSE g_alloc_function
      takes == StartGap >= TotalSize(size)
      Begin(pass, iter, addr, gap) ==
        scan' = [alg |-> alg, size |-> size, pass |-> pass,
                 iter |-> iter, addr |-> addr, gap |-> gap]
  IN /\ Idle /\ Cardinality(Live) < MaxSegs
     /\ start # nullptr
     /\ IF alg = "next_fit"
        THEN /\ ASSERT(last_addr < end_addr, ListUntouched)
             /\ Begin("loop", last_addr, nullptr, 0)
        ELSE /\ IF first_seg = nullptr \/ (alg = "first_fit" /\ takes)
                THEN Begin("done", nullptr, IF takes THEN Base ELSE nullptr, 0)
                ELSE Begin("loop", head[first_seg].next_seg_tail,
                           IF takes THEN Base ELSE nullptr, IF takes THEN StartGap ELSE 0)
             /\ ListUntouched /\ UNCHANGED status
     /\ UNCHANGED g_alloc_function

Better_TakesLastTie(gap) ==
  IF scan.alg = "best_fit" THEN gap <= scan.gap ELSE gap >= scan.gap

(* best_fit keeps the smallest fitting gap, worst_fit the largest. *)
Better(gap) ==
  IF scan.alg = "best_fit" THEN gap < scan.gap ELSE gap > scan.gap

(* One iteration of best_fit or worst_fit: they look at every gap. *)
ScanAll ==
  LET gap   == tail[scan.iter].free_following
      takes == Fits(gap) /\ (scan.addr = nullptr \/ Better(gap))
      next  == Following(scan.iter)
  IN /\ scan.pass = "loop" /\ scan.alg \in {"best_fit", "worst_fit"}
     /\ scan' = [scan EXCEPT !.addr = IF takes THEN scan.iter + SEG_TAIL ELSE @,
                             !.gap  = IF takes THEN gap ELSE @,
                             !.iter = next,
                             !.pass = IF LoopGoesOn(next) THEN "loop" ELSE "done"]

(* One iteration of first_fit, or of the loop next_fit begins with. *)
ScanUp ==
  LET next == Following(scan.iter)
  IN /\ scan.pass = "loop" /\ scan.alg \in {"first_fit", "next_fit"}
     /\ \/ /\ Fits(tail[scan.iter].free_following)
           /\ Return(scan.iter + SEG_TAIL)
        \/ /\ ~ Fits(tail[scan.iter].free_following)
           /\ LoopGoesOn(next)
           /\ scan' = [scan EXCEPT !.iter = next]
        \/ /\ ~ Fits(tail[scan.iter].free_following)
           /\ ~ LoopGoesOn(next)
           /\ scan.alg = "first_fit"
           /\ Return(nullptr)
        \/ /\ ~ Fits(tail[scan.iter].free_following)
           /\ ~ LoopGoesOn(next)
           /\ scan.alg = "next_fit"
           /\ IF Fits(StartGap) THEN Return(Base)
              ELSE scan' = [scan EXCEPT !.pass = "wrap",
                                        !.iter = head[first_seg].next_seg_tail]

(* next_fit starts over from the first segment, up to last_addr. *)
ScanWrap ==
  /\ scan.pass = "wrap"
  /\ \/ /\ scan.iter < last_addr /\ Fits(tail[scan.iter].free_following)
        /\ Return(scan.iter + SEG_TAIL)
     \/ /\ scan.iter < last_addr /\ ~ Fits(tail[scan.iter].free_following)
        /\ scan' = [scan EXCEPT !.iter = Following(scan.iter)]
     \/ /\ scan.iter >= last_addr
        /\ Return(nullptr)

ScanStep ==
  /\ status = "running"
  /\ ScanAll \/ ScanUp \/ ScanWrap
  /\ ListUntouched /\ UNCHANGED <<status, g_alloc_function>>

(* Back in find_free_seg. *)
EndScan ==
  /\ status = "running" /\ scan.pass = "done"
  /\ IF scan.addr = nullptr THEN expand_list(scan.size)
     ELSE /\ Found(scan.addr, scan.size)
          /\ UNCHANGED <<arena, head, tail, last_addr, status>>
  /\ scan' = NoScan /\ UNCHANGED g_alloc_function

(* find_free_seg's first call has no list to search. *)
FirstCall(size) ==
  /\ Idle /\ Cardinality(Live) < MaxSegs
  /\ CreateList(size) \/ (start = nullptr /\ ExpandFails)
  /\ Unscanned

set_alloc_function(strat) ==
  /\ Idle
  /\ g_alloc_function' = strat
  /\ UNCHANGED scan /\ ListUntouched /\ UNCHANGED status

OtherCalls ==
  /\ \/ AddEntry
     \/ \E h \in Live : RemoveSegment(h)
     \/ \E h \in Live, n \in Sizes : ShrinkSegment(h, n) \/ ExpandSegment(h, n)
     \/ ClearAllocStorage
     \/ ResetLastAddr
     \/ Stopped
  /\ Unscanned

SNext ==
  \/ ScanStep
  \/ EndScan
  \/ /\ scan = NoScan
     /\ \/ \E size \in Sizes : StartScan(size) \/ FirstCall(size)
        \/ \E strat \in Strategies : set_alloc_function(strat)
        \/ OtherCalls

(* The thread that searches keeps running. *)
SFairness == WF_svars(ScanStep) /\ WF_svars(EndScan)

SSpec == SInit /\ [][SNext]_svars /\ SFairness

-----------------------------------------------------------------------------
(***************************************************************************)
(* What the strategies promise.                                            *)
(***************************************************************************)

STypeOK ==
  /\ TypeOK
  /\ g_alloc_function \in Strategies
  /\ scan \in [alg : Strategies \cup {"none"}, size : Sizes \cup {0},
               pass : {"idle", "loop", "wrap", "done"},
               iter : DOMAIN tail \cup {nullptr}, addr : Nat, gap : Nat]

Lowest(S) == CHOOSE x \in S : \A y \in S : x <= y

(* The gap alg should return: for best_fit (worst_fit) the lowest of the    *)
(* smallest (largest) fitting gaps, for first_fit the lowest, for next_fit  *)
(* the first one behind last_addr, going around the list header once.      *)
Wanted ==
  LET gaps == FittingGaps(scan.size)
      near == {g \in gaps : g > last_addr}
  IN CASE gaps = {} -> nullptr
       [] gaps # {} /\ scan.alg = "best_fit" ->
            Lowest({g \in gaps : \A k \in gaps : GapAt(g) <= GapAt(k)})
       [] gaps # {} /\ scan.alg = "worst_fit" ->
            Lowest({g \in gaps : \A k \in gaps : GapAt(g) >= GapAt(k)})
       [] gaps # {} /\ scan.alg = "first_fit" -> Lowest(gaps)
       [] gaps # {} /\ scan.alg = "next_fit" ->
            Lowest(IF near # {} THEN near ELSE gaps)

(* Whatever sequence of calls came before, and whichever strategy is in     *)
(* use, a search returns exactly the gap its strategy is named for, and     *)
(* nullptr only when no gap fits.                                           *)
ReturnsWanted == scan.pass = "done" => scan.addr = Wanted

(* Every search ends ("this loop *will* terminate with utmost certainty",  *)
(* strats.c): the list is circular, and only its address order stops the   *)
(* loops.                                                                  *)
SearchEnds == (scan # NoScan) ~> (scan = NoScan)

(* A search never visits a tail twice in the same loop: the iterator only  *)
(* climbs, except for next_fit's one return to the first segment.          *)
IteratorClimbs ==
  [][scan.pass \in {"loop", "wrap"} /\ scan'.pass = scan.pass
       => scan'.iter > scan.iter]_svars

(* Each strategy is one way of picking a gap: to every caller of           *)
(* find_free_seg the allocator is the one SegList describes, in which the  *)
(* arena grows only when no gap fits.                                      *)
ImplementsSegList == Spec
=============================================================================
