----------------------------- MODULE MCHwbLoad ------------------------------
(***************************************************************************)
(* Small instances of HwbLoad: two CMGs of two PEs; CMGs of three, two and *)
(* one PE.                                                                 *)
(***************************************************************************)
EXTENDS HwbLoad, TLC

CONSTANTS c1, c2, c3, c4, c5, c6

TwoByTwo == c1 :> <<0, 0>> @@ c2 :> <<0, 1>> @@ c3 :> <<1, 0>> @@ c4 :> <<1, 1>>
Uneven   == TwoByTwo @@ c5 :> <<0, 2>> @@ c6 :> <<2, 0>>
=============================================================================
