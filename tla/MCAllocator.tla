----------------------------- MODULE MCAllocator -----------------------------
(* Allocator for model checking: the threads are interchangeable.          *)
EXTENDS Allocator, TLC

Interchangeable == Permutations(Threads)
=============================================================================
