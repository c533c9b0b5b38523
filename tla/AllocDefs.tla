------------------------------ MODULE AllocDefs ------------------------------
(***************************************************************************)
(* Layout constants and size arithmetic shared by every module of the      *)
(* allocator: the sizeof()s of alloc/types.h, ALIGNMENT and PAGE_SIZE of   *)
(* alloc/defines.h and the rounding helpers of alloc/sources/utils.c.      *)
(*                                                                         *)
(* Addresses are natural numbers and nullptr is address 0.  Numbers are    *)
(* mathematical integers here: requests are assumed small enough for the   *)
(* `int' conversions of the code to be exact.                              *)
(***************************************************************************)
EXTENDS Integers

CONSTANTS
  ALIGNMENT,   (* _Alignof(max_align_t): 16 on x86-64                      *)
  PAGE_SIZE,   (* unit in which the arena grows and shrinks: 4096          *)
  LIST_HEAD,   (* sizeof(seg_list_head_s): 16                              *)
  SEG_HEAD,    (* sizeof(seg_head_s): 32                                   *)
  SEG_TAIL     (* sizeof(seg_tail_s): 32                                   *)

(***************************************************************************)
(* What unittests/alloc/alignment.c requires of the layout: every struct   *)
(* is a whole number of alignment units.  4096 is one too.                 *)
(***************************************************************************)
ASSUME LayoutAssumption ==
  /\ ALIGNMENT \in Nat \ {0}
  /\ PAGE_SIZE \in Nat \ {0} /\ PAGE_SIZE % ALIGNMENT = 0
  /\ LIST_HEAD \in Nat \ {0} /\ LIST_HEAD % ALIGNMENT = 0
  /\ SEG_HEAD  \in Nat \ {0} /\ SEG_HEAD  % ALIGNMENT = 0
  /\ SEG_TAIL  \in Nat \ {0} /\ SEG_TAIL  % ALIGNMENT = 0

nullptr == 0

Aligned(x) == x % ALIGNMENT = 0

(* The smallest multiple of m that is at least n. *)
round_up(n, m) == IF n % m = 0 THEN n ELSE (n + m) - (n % m)

TotalSize_Unrounded(size) == SEG_HEAD + size + SEG_TAIL

(* Bytes a segment of `size' user bytes occupies, header and tail included. *)
TotalSize(size) == SEG_HEAD + round_up(size, ALIGNMENT) + SEG_TAIL

PageCeil_Floors(n) == PAGE_SIZE * (n \div PAGE_SIZE)
PageCeil_PageMore(n) == PAGE_SIZE * ((n \div PAGE_SIZE) + 1)

(* PAGE_SIZE * ceil(n / PAGE_SIZE), the amount expand_list asks sbrk for. *)
PageCeil(n) == PAGE_SIZE * ((n + (PAGE_SIZE - 1)) \div PAGE_SIZE)

(* PAGE_SIZE * floor(n / PAGE_SIZE), the amount remove_segment gives back. *)
PageFloor(n) == PAGE_SIZE * (n \div PAGE_SIZE)
=============================================================================
