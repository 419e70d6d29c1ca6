---------------------------- MODULE MCHwbClient -----------------------------
(***************************************************************************)
(* Small instances of HwbClient: the processes p1, of the tasks t1 and t3, *)
(* and p2, of t2, on two CMGs of two CPUs; or p1 alone, of t1, on one.     *)
(***************************************************************************)
EXTENDS HwbClient, TLC

CONSTANTS t1, t2, t3, p1, p2, c1, c2, c3, c4, g1, g2

TwoProcesses == t1 :> p1 @@ t2 :> p2 @@ t3 :> p1
OneProcess   == t1 :> p1

OneCmg  == c1 :> g1 @@ c2 :> g1
TwoCmgs == c1 :> g1 @@ c2 :> g1 @@ c3 :> g2 @@ c4 :> g2

OnlyNextFree == {-1}

\* The CPUs of a CMG are interchangeable, and so are the CMGs with their CPUs.
CpuSymmetry ==
  {f \in Permutations(CPUs \cup CMGs) :
     \A c \in CPUs : f[c] \in CPUs /\ cmgOf[f[c]] = f[cmgOf[c]]}
=============================================================================
