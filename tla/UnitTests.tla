------------------------------ MODULE UnitTests ------------------------------
(***************************************************************************)
(* The unit tests run on the model, with the layout and the page size of   *)
(* the real program: what the authors expect of the allocator, address by  *)
(* address, is expected of the specification.  One thread calls, and the   *)
(* kernel never refuses memory.                                            *)
(***************************************************************************)
EXTENDS Strats, TestScripts

CONSTANT Programs   (* bound: the test programs of a run                   *)

VARIABLES
  program,    (* the test program that runs                                *)
  line,       (* the call of its script it is at                           *)
  ptrs,       (* the pointer variables of the program                      *)
  moved,      (* realloc has its new block, the old one is not freed yet   *)
  failed      (* an expectation was not met                                *)

tvars == <<svars, program, line, ptrs, moved, failed>>

TInit ==
  /\ SInit
  /\ program \in Programs
  /\ line = 1 /\ ptrs = Empty /\ moved = nullptr /\ failed = FALSE

Over == line > Len(Script[program])
Op == IF Over THEN NoOp ELSE Script[program][line]

(* A user pointer, and the header in front of it. *)
User(h) == h + SEG_HEAD
Header(slot) == ptrs[slot] - SEG_HEAD

(* The test's comparisons, and is_aligned. *)
Expected(p) ==
  /\ Aligned(p)
  /\ \A where \in Op.at : p = ptrs[where[1]] + where[2]
  /\ Op.as = "same" => p = ptrs[Op.slot]
  /\ Op.as = "moved" => p # ptrs[Op.slot]

(* The call returns p. *)
Returns(p) ==
  /\ ptrs' = Put(ptrs, Op.slot, p)
  /\ failed' = (failed \/ ~ Expected(p))
  /\ line' = line + 1 /\ moved' = nullptr

NextLine == line' = line + 1 /\ UNCHANGED <<ptrs, moved, failed>>
SameLine == UNCHANGED <<line, ptrs, moved, failed>>

-----------------------------------------------------------------------------
OldSize == head[Header(Op.slot)].seg_size

(* realloc goes on to malloc. *)
HasToMove ==
  Op.size > OldSize /\ ~ ExpandFits(Header(Op.slot), Op.size)

Allocates == Op.size # 0 /\ (Op.do = "malloc" \/ (Op.do = "realloc" /\ HasToMove))

(* malloc calls find_free_seg. *)
FindFree ==
  \/ /\ scan = NoScan /\ call = NoCall /\ moved = nullptr /\ Allocates
     /\ StartScan(Op.size) \/ FirstCall(Op.size)
     /\ SameLine
  \/ (ScanStep \/ EndScan) /\ SameLine

(* malloc calls add_entry and returns; in realloc the copying comes next.  *)
Add ==
  /\ AddEntry /\ Unscanned
  /\ IF Op.do = "malloc" THEN Returns(User(call.new_a))
     ELSE moved' = User(call.new_a) /\ UNCHANGED <<line, ptrs, failed>>

ReallocMoved ==
  /\ moved # nullptr
  /\ RemoveSegment(Header(Op.slot)) /\ Unscanned
  /\ Returns(moved)

ReallocInPlace ==
  /\ Op.do = "realloc" /\ scan = NoScan /\ call = NoCall /\ moved = nullptr
  /\ \/ Op.size = OldSize /\ ListUntouched /\ UNCHANGED status
     \/ ShrinkSegment(Header(Op.slot), Op.size)
     \/ ExpandSegment(Header(Op.slot), Op.size)
  /\ Unscanned /\ Returns(ptrs[Op.slot])

MallocZero ==
  /\ Op.do = "malloc" /\ Op.size = 0
  /\ ListUntouched /\ Unscanned /\ UNCHANGED status /\ Returns(nullptr)

OtherCall ==
  /\ \/ Op.do = "free" /\ RemoveSegment(Header(Op.slot)) /\ Unscanned
     \/ Op.do = "clear_alloc_storage" /\ ClearAllocStorage /\ Unscanned
     \/ Op.do = "set_last_addr" /\ ResetLastAddr /\ Unscanned
     \/ Op.do = "set_alloc_function" /\ set_alloc_function(Op.strat)
  /\ NextLine

TStep ==
  /\ FindFree \/ Add \/ ReallocMoved \/ ReallocInPlace \/ MallocZero \/ OtherCall
  /\ status' # "exited"
  /\ UNCHANGED program

Finished == Over /\ UNCHANGED tvars

TNext == TStep \/ Finished

TSpec == TInit /\ [][TNext]_tvars

-----------------------------------------------------------------------------
(* Every test passes: each block lies where its test says, aligned and in  *)
(* the gap the strategy under test is meant to choose, and no ASSERT of    *)
(* the allocator fires on the way.                                         *)
TestsPass == ~ failed /\ status = "running"
=============================================================================
