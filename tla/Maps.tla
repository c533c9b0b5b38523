-------------------------------- MODULE Maps --------------------------------
(***************************************************************************)
(* Functions with a finite, changing domain: the structs that exist at     *)
(* some address, the blocks a client holds.                                *)
(***************************************************************************)
Empty == [x \in {} |-> 0]

(* f with x mapped to v, whether or not x was in its domain. *)
Put(f, x, v) == [y \in DOMAIN f \cup {x} |-> IF y = x THEN v ELSE f[y]]

(* f without x. *)
Drop(f, x) == [y \in DOMAIN f \ {x} |-> f[y]]
=============================================================================
