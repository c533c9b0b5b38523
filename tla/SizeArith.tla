------------------------------ MODULE SizeArith ------------------------------
(***************************************************************************)
(* The sizes of julmalloc at their real widths: size_t wraps, and the      *)
(* strategies, add_entry, expand_list and remove_segment convert totals    *)
(* and gaps to int before they compare or subtract them.  The other        *)
(* modules compute with unbounded integers; this one shows for which       *)
(* requests that is the same.                                              *)
(*                                                                         *)
(* A request is decided against one gap, both as the gap before the first  *)
(* segment (compared as int) and as the gap behind a tail (compared as     *)
(* size_t); the same gap at the end of the arena decides how far the       *)
(* arena grows or contracts.                                               *)
(***************************************************************************)
EXTENDS AllocDefs

CONSTANTS
  SIZE_BITS,   (* width of size_t: 64                                      *)
  INT_BITS,    (* width of int: 32                                         *)
  Counts,      (* calloc's n_memb; 1 is malloc                             *)
  Requests,    (* size arguments                                           *)
  Gaps         (* sizes a gap can have                                     *)

ASSUME WidthAssumption ==
  /\ SIZE_BITS \in Nat /\ INT_BITS \in Nat \ {0} /\ INT_BITS < SIZE_BITS
  /\ Counts \subseteq Nat \ {0} /\ Requests \subseteq Nat
  /\ Gaps \subseteq Nat /\ \A g \in Gaps : Aligned(g)

VARIABLES
  wanted,      (* bytes the caller means: n_memb * size                    *)
  size,        (* the size_t that malloc gets                              *)
  gap,         (* the gap it is compared with                              *)
  answer       (* what the code decides                                    *)

avars == <<wanted, size, gap, answer>>

INT_MAX == 2^(INT_BITS - 1) - 1

(***************************************************************************)
(* What limits.h and defines.h say of these numbers: INT_MAX is below      *)
(* 2^INT_BITS and SIZE_MAX, and a page fits an int.  The proofs use this   *)
(* instead of the laws of exponents.                                       *)
(***************************************************************************)
ASSUME LimitsAssumption ==
  /\ 2^SIZE_BITS \in Nat \ {0} /\ 2^INT_BITS \in Nat \ {0}
  /\ INT_MAX \in Nat /\ INT_MAX < 2^INT_BITS /\ INT_MAX < 2^SIZE_BITS
  /\ PAGE_SIZE <= INT_MAX

size_t(x) == x % 2^SIZE_BITS

(* (int)x, as every supported compiler does it. *)
int(x) ==
  LET low == x % 2^INT_BITS IN IF low > INT_MAX THEN low - 2^INT_BITS ELSE low

(* round_up and total_size, in size_t. *)
effective_size(n) ==
  IF n % ALIGNMENT = 0 THEN n ELSE size_t((n + ALIGNMENT) - (n % ALIGNMENT))
total_size(n) == size_t(SEG_HEAD + effective_size(n) + SEG_TAIL)

fits_start_Strict(n, g) == int(g) > int(total_size(n))

(* The gap before the first segment, or the whole of an empty arena. *)
fits_start(n, g) == int(g) >= int(total_size(n))

(* The gap behind a tail. *)
fits_tail(n, g) == g >= total_size(n)

Refused == -1

(* expand_list with g bytes free at the end: the bytes it asks sbrk for. *)
to_grow(n, g) ==
  IF int(g) < int(total_size(n)) THEN PageCeil(int(total_size(n)) - int(g)) ELSE Refused

(* remove_segment with g bytes free at the end: the bytes it gives back. *)
to_shrink(g) == IF int(g) - int(PAGE_SIZE) > 0 THEN int(PageFloor(g)) ELSE 0

None == [decided |-> FALSE]

AInit == wanted = 0 /\ size = 0 /\ gap = 0 /\ answer = None

(* malloc(n) or calloc(n_memb, n), against a gap of g bytes. *)
Ask ==
  /\ answer' = None
  /\ \E n_memb \in Counts, n \in Requests, g \in Gaps :
       /\ n < 2^SIZE_BITS
       /\ wanted' = n_memb * n
       /\ size' = size_t(n_memb * n)
       /\ gap' = g

Decide ==
  /\ answer' = [decided |-> TRUE,
                start  |-> fits_start(size, gap),
                tail   |-> fits_tail(size, gap),
                grow   |-> to_grow(size, gap),
                shrink |-> to_shrink(gap)]
  /\ UNCHANGED <<wanted, size, gap>>

ANext == (answer # None /\ Ask) \/ (answer = None /\ Decide)

ASpec == AInit /\ [][ANext]_avars

-----------------------------------------------------------------------------
(* The answers of SegList's arithmetic. *)
Exact ==
  [decided |-> TRUE,
   start  |-> gap >= TotalSize(wanted),
   tail   |-> gap >= TotalSize(wanted),
   grow   |-> IF gap < TotalSize(wanted) THEN PageCeil(TotalSize(wanted) - gap) ELSE Refused,
   shrink |-> IF gap > PAGE_SIZE THEN PageFloor(gap) ELSE 0]

(* Every decision is the one of unbounded arithmetic as long as the total   *)
(* of the request and the gap are at most INT_MAX: the range in which       *)
(* SegList, Strats and their proofs describe the code.                      *)
ExactUpToIntMax ==
  answer # None /\ TotalSize(wanted) <= INT_MAX /\ gap <= INT_MAX => answer = Exact

(* "Address of gap where there is at least size many space free"            *)
(* (memory_mgmt.h, find_free_seg), for any request a size_t can hold.       *)
FoundGapFits == answer # None /\ (answer.start \/ answer.tail) => gap >= TotalSize(wanted)
=============================================================================
