-------------------------- MODULE MCHwbRefinement ---------------------------
(***************************************************************************)
(* The small instances of MCHwbDriver, with the refinement of HwbService.  *)
(***************************************************************************)
EXTENDS MCHwbDriver, HwbRefinement
=============================================================================
