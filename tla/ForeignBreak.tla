---------------------------- MODULE ForeignBreak ----------------------------
(***************************************************************************)
(* The segment list in a process where somebody else calls sbrk too: a     *)
(* library or the program itself, which owe storage_lock nothing.          *)
(* expand_list compares what sbrk returns with -1 and otherwise ignores    *)
(* it: the new pages are taken to follow end_addr.                         *)
(***************************************************************************)
EXTENDS SegList

CONSTANT ForeignSizes   (* bound: what the others ask sbrk for             *)

VARIABLE foreign        (* the bytes sbrk gave to the others               *)

FInit == Init /\ foreign = {}

(* Bound: the others call sbrk once. *)
OtherSbrk(n) ==
  /\ status = "running" /\ foreign = {}
  /\ sbrk(n)
  /\ foreign' = brk .. brk' - 1
  /\ UNCHANGED <<start, first_seg, end_addr, head, tail, last_addr, call, status>>

FNext ==
  \/ Next /\ UNCHANGED foreign
  \/ \E n \in ForeignSizes : OtherSbrk(n)

FSpec == FInit /\ [][FNext]_<<vars, foreign>>

(* find_free_seg returns the "Address of gap where there is at least size   *)
(* many space free (not allocated yet)" (memory_mgmt.h): in particular none *)
(* that the kernel has given to somebody else.                             *)
FoundGapIsFree ==
  call # NoCall => foreign \cap (call.new_a .. call.new_a + TotalSize(call.size) - 1) = {}
=============================================================================
