-------------------------------- MODULE Heap --------------------------------
(***************************************************************************)
(* What an allocator promises its clients: a set of blocks, each with an   *)
(* address and a size, aligned, pairwise disjoint, and changed only by an  *)
(* operation on that very block.  SegList implements it with headers,      *)
(* tails, gaps and a growing arena; none of that is visible here.          *)
(***************************************************************************)
EXTENDS Integers, Maps

CONSTANTS
  Sizes,      (* request sizes the clients use *)
  ALIGNMENT   (* _Alignof(max_align_t)         *)

VARIABLES
  blocks,     (* size of every block handed out, by user address *)
  status      (* "running" or "exited"                           *)

hvars == <<blocks, status>>

Pointers == DOMAIN blocks

(* The bytes of n user bytes at p and of the block at q do not meet. *)
Apart(p, n, q) == p + n <= q \/ q + blocks[q] <= p

HInit == blocks = Empty /\ status = "running"

(* malloc: a new block anywhere it touches no other one. *)
Allocate(p, n) ==
  /\ p # 0 /\ p % ALIGNMENT = 0 /\ p \notin Pointers
  /\ \A q \in Pointers : Apart(p, n, q)
  /\ blocks' = Put(blocks, p, n)
  /\ UNCHANGED status

(* free. *)
Release(p) == blocks' = Drop(blocks, p) /\ UNCHANGED status

(* realloc in place: the address stays and no other block is touched. *)
Resize(p, n) ==
  /\ \A q \in Pointers \ {p} : Apart(p, n, q)
  /\ blocks' = [blocks EXCEPT ![p] = n]
  /\ UNCHANGED status

(* clear_alloc_storage. *)
ReleaseAll == blocks' = Empty /\ UNCHANGED status

(* exit() when the kernel refuses memory. *)
Exit == status' = "exited" /\ UNCHANGED blocks

HNext ==
  /\ status = "running"
  /\ \/ \E n \in Sizes : \E p \in DOMAIN blocks' : Allocate(p, n)
     \/ \E p \in Pointers : Release(p)
     \/ \E p \in Pointers, n \in Sizes : Resize(p, n)
     \/ ReleaseAll
     \/ Exit

HSpec == HInit /\ [][HNext]_hvars
=============================================================================
