--------------------------- MODULE DefaultStrategy ---------------------------
(***************************************************************************)
(* Strats with clients that never call set_alloc_function.                 *)
(***************************************************************************)
EXTENDS Strats

(* What memory_mgmt.c initialises g_alloc_function to stays in use. *)
DNext == SNext /\ UNCHANGED g_alloc_function

DSpec == SInit /\ [][DNext]_svars

(* "On default, first-fit is set as an allocation strategy" (README.MD): a *)
(* search returns the lowest gap that fits.                                *)
DefaultIsFirstFit ==
  scan.pass = "done" /\ scan.addr # nullptr => scan.addr = Lowest(FittingGaps(scan.size))
=============================================================================
