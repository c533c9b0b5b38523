------------------------------ MODULE MCSegList ------------------------------
(***************************************************************************)
(* SegList for model checking: the action properties of the arena and the  *)
(* refinement of Heap.                                                     *)
(***************************************************************************)
EXTENDS SegList

(* expand_list grows the arena "by as many bytes necessary, but not more"  *)
(* (memory_mgmt.c): never while a gap fits, and never by a page more than  *)
(* the request needs once the free bytes at the end are counted.           *)
GrowsByNeed ==
  [][start # nullptr /\ end_addr' > end_addr =>
       /\ FittingGaps(call'.size) = {}
       /\ (GapAt(call.new_a) - PAGE_SIZE)' < TotalSize(call'.size)]_vars

(* remove_segment contracts the arena in whole pages whenever the last of  *)
(* several segments goes: no whole page and a byte is left over behind the *)
(* segment that is last now.                                               *)
ContractsFully ==
  [][(\E h \in Live : RemoveSegment(h) /\ h # first_seg /\ NextHead(h) = first_seg)
       => status' = "running" /\ end_addr' - (LastTail' + SEG_TAIL) <= PAGE_SIZE]_vars

(* The blocks the clients see. *)
Blocks == [p \in {h + SEG_HEAD : h \in Live} |-> head[p - SEG_HEAD].seg_size]

H == INSTANCE Heap WITH blocks <- Blocks

(* The segment list implements the heap: an operation on one segment never *)
(* moves, resizes or overlaps another one.                                 *)
ImplementsHeap == H!HSpec
=============================================================================
