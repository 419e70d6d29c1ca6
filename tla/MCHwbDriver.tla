---------------------------- MODULE MCHwbDriver -----------------------------
(***************************************************************************)
(* Small instances of HwbDriver: two thread groups, p1 with the tasks t1   *)
(* and t2, p2 with t3, on CPUs of one CMG.                                 *)
(***************************************************************************)
EXTENDS HwbDriver, TLC

CONSTANTS t1, t2, t3, p1, p2, c1, c2, c3, g1

TwoGroups   == t1 :> p1 @@ t2 :> p1 @@ t3 :> p2
OnePerGroup == t1 :> p1 @@ t3 :> p2

Pair        == t1 :> p1 @@ t2 :> p1

OneCmg == c1 :> g1 @@ c2 :> g1

OnlyNextFree == {-1}
AnyWindow    == {-1} \cup Windows

\* CPUs of one CMG, and tasks of one group, are interchangeable (safety only).
CpuSymmetry == Permutations({c1, c2})
=============================================================================
