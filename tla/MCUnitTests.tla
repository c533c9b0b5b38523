----------------------------- MODULE MCUnitTests -----------------------------
(* UnitTests for model checking: the sizes around a change of the aligned   *)
(* size, and around the ones whose segment fills one or two pages exactly. *)
EXTENDS UnitTests

SampleRounds ==
  [i \in 1..42 |-> i - 1] \o <<999, 4031, 4032, 4033, 5000, 8127, 8128, 8129,
                               9999, 10000>>
=============================================================================
