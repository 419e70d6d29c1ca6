----------------------------- MODULE MCHwbSched -----------------------------
(***************************************************************************)
(* A small instance of HwbSched: t1, which allocates, shares its CPU with  *)
(* t2; t3, which allocates and frees, and t4, which resets and frees, have *)
(* CPUs of their own.                                                      *)
(***************************************************************************)
EXTENDS HwbSched, TLC

CONSTANTS t1, t2, t3, t4, c1, c2, c3

OwnerShares == t1 :> c1 @@ t2 :> c1 @@ t3 :> c2 @@ t4 :> c3

SharedProgram ==
  t1 :> {"alloc"} @@ t2 :> {"own", "free"} @@ t3 :> {"alloc", "free"} @@ t4 :> {"reset", "free"}
=============================================================================
