---------------------------- MODULE MCHwbBarrier ----------------------------
(***************************************************************************)
(* Small instances of HwbBarrier: the tasks t1 and t2 of p1 synchronise on *)
(* two CPUs, the task t3 of p2 uses the driver on the CPU of t1, and t4 of *)
(* p2 on a third one, where it need not be careful; or three tasks of one  *)
(* process on three CPUs.                                                  *)
(***************************************************************************)
EXTENDS HwbBarrier, TLC

CONSTANTS t1, t2, t3, t4, p1, p2, c1, c2, c3, g1

TwoGroups == t1 :> p1 @@ t2 :> p1 @@ t3 :> p2
TwoPairs  == t1 :> p1 @@ t2 :> p1 @@ t3 :> p2 @@ t4 :> p2
OneGroup  == t1 :> p1 @@ t2 :> p1 @@ t3 :> p1

OneCmg  == c1 :> g1 @@ c2 :> g1
OneCmg3 == c1 :> g1 @@ c2 :> g1 @@ c3 :> g1

Shared == t1 :> c1 @@ t2 :> c2 @@ t3 :> c1
Beside == t1 :> c1 @@ t2 :> c2 @@ t3 :> c1 @@ t4 :> c3
Apart  == t1 :> c1 @@ t2 :> c2 @@ t3 :> c3

OnlyNextFree == {-1}
OrFirst      == {-1, 0}
=============================================================================
