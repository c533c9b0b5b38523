----------------------------- MODULE MCSizeArith -----------------------------
(* SizeArith at 10 and 7 bits, with the requests around every boundary:    *)
(* zero, INT_MAX = 63 less the overhead, the int's sign bit and wrap, and  *)
(* the end of size_t.                                                      *)
EXTENDS SizeArith

SmallAndHuge == 0..20 \cup 40..72 \cup 110..132 \cup 505..515 \cup 1000..1023
AlignedGaps == {g \in 0..80 : Aligned(g)}
=============================================================================
