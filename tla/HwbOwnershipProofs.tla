------------------------- MODULE HwbOwnershipProofs -------------------------
(***************************************************************************)
(* Proofs about who owns the blades and windows of HwbDriver.  The steps   *)
(* of the driver fall into a few shapes: those that leave the allocations  *)
(* alone, those that free some of them (close, free by the owner, free by  *)
(* the last participant), and five that change one allocation or drop all. *)
(* Every invariant is shown to survive every shape.                        *)
(***************************************************************************)
EXTENDS HwbDriverProofs, FiniteSetTheorems

-----------------------------------------------------------------------------
(***************************************************************************)
(* The shapes of a step                                                    *)
(***************************************************************************)
\* Nothing the ownership invariants look at changes.
Untouched == UNCHANGED <<allocs, cpumask, assign_mask, assign_count, window,
                         bb_active, bw_map, init_sync>>

\* The allocations K are gone, with their blades and at most their windows.
Freed(K) ==
  /\ allocs' = allocs \ K
  /\ \A k \in allocs \ K : /\ cpumask'[k] = cpumask[k]
                           /\ assign_mask'[k] = assign_mask[k]
                           /\ assign_count'[k] = assign_count[k]
                           /\ window'[k] = window[k]
  /\ \A g \in CMGs : bb_active'[g] = bb_active[g] \ BladesOf(K, g)
  /\ \A d \in CPUs : \A w \in bw_map[d] :
       (\A k \in K : ~ (d \in assign_mask[k] /\ window[k][d] = w)) => w \in bw_map'[d]
  /\ \A g \in CMGs, b \in Blades : init_sync'[g][b] = init_sync[g][b]

\* The allocations other than k keep their fields.
OthersKept(k) ==
  \A j \in Keys \ {k} : /\ cpumask'[j] = cpumask[j]
                        /\ assign_mask'[j] = assign_mask[j]
                        /\ assign_count'[j] = assign_count[j]
                        /\ window'[j] = window[j]

\* Allocation k is new, for the CPUs mask, on a blade that was free.
Allocated(k, mask) ==
  /\ k \in Keys
  /\ Blade(k) \notin bb_active[Cmg(k)]
  /\ mask # {} /\ mask \subseteq PEs(Cmg(k))
  /\ allocs' = allocs \cup {k}
  /\ cpumask'[k] = mask /\ assign_mask'[k] = {} /\ assign_count'[k] = 0
  /\ window'[k] = NoWindows
  /\ OthersKept(k)
  /\ \A g \in CMGs : bb_active'[g] = IF g = Cmg(k) THEN bb_active[g] \cup {Blade(k)}
                                                  ELSE bb_active[g]
  /\ bw_map' = bw_map
  /\ \A g \in CMGs, b \in Blades :
       init_sync'[g][b] = IF g = Cmg(k) /\ b = Blade(k) THEN mask ELSE init_sync[g][b]

\* At most allocation k changes, and of its windows the one on CPU c.
OnlyOn(k, c) ==
  /\ k \in allocs
  /\ UNCHANGED <<allocs, bb_active>>
  /\ OthersKept(k)
  /\ \A d \in CPUs \ {c} : window'[k][d] = window[k][d] /\ bw_map'[d] = bw_map[d]

\* Allocation k gets the free window win of CPU c.
Assigned(k, c, win) ==
  /\ OnlyOn(k, c)
  /\ c \in cpumask[k]
  /\ win \in Windows /\ win \notin bw_map[c]
  /\ window'[k][c] = win /\ bw_map'[c] = bw_map[c] \cup {win}
  /\ assign_mask'[k] = assign_mask[k] \cup {c}
  /\ assign_count'[k] = assign_count[k] + 1
  /\ cpumask'[k] = cpumask[k] /\ init_sync' = init_sync

\* Allocation k gives the window of CPU c back.
Unassigned(k, c) ==
  /\ OnlyOn(k, c)
  /\ window[k][c] \in Windows
  /\ window'[k][c] = A64FX_HWB_UNASSIGNED_WIN
  /\ bw_map'[c] = bw_map[c] \ {window[k][c]}
  /\ assign_mask'[k] = assign_mask[k] \ {c}
  /\ assign_count'[k] = assign_count[k] - 1
  /\ cpumask'[k] = cpumask[k] /\ init_sync' = init_sync

\* CPU c leaves allocation k, and others stay.
Left(k, c) ==
  /\ OnlyOn(k, c)
  /\ c \in cpumask[k]
  /\ cpumask'[k] = cpumask[k] \ {c} /\ cpumask'[k] # {}
  /\ assign_mask'[k] = assign_mask[k] \ {c}
  /\ assign_count'[k] = CountWithout(k, c)
  /\ c \in assign_mask[k] => /\ window'[k][c] = A64FX_HWB_UNASSIGNED_WIN
                             /\ bw_map'[c] = bw_map[c] \ {window[k][c]}
  /\ c \notin assign_mask[k] => window'[k][c] = window[k][c] /\ bw_map'[c] = bw_map[c]
  /\ \A g \in CMGs, b \in Blades :
       init_sync'[g][b] = IF g = Cmg(k) /\ b = Blade(k) THEN cpumask'[k]
                                                       ELSE init_sync[g][b]

\* The bookkeeping is dropped.
Dropped == allocs' = {} /\ \A g \in CMGs : bb_active'[g] = {}

\* Writing an empty BST_MASK changes no blade register.
LEMMA EmptyMaskRefused == \A old : InitSyncWritten(old, {}) = old
BY DEF InitSyncWritten

\* free_allocation() as close and free call it.
LEMMA FreeAllocationsFreed ==
  ASSUME TypeOK, NEW K \in SUBSET allocs,
         FreeAllocations(K, assign_mask, assign_count, bw_map, assign_sync)
  PROVE  Freed(K)
<1>1. allocs' = allocs \ K
  BY DEF FreeAllocations
<1>2. \A k \in allocs \ K : /\ cpumask'[k] = cpumask[k]
                            /\ assign_mask'[k] = assign_mask[k]
                            /\ assign_count'[k] = assign_count[k]
                            /\ window'[k] = window[k]
  BY DEF FreeAllocations, TypeOK
<1>3. \A g \in CMGs : bb_active'[g] = bb_active[g] \ BladesOf(K, g)
  BY DEF FreeAllocations
<1>4. ASSUME NEW d \in CPUs, NEW w \in bw_map[d],
             \A k \in K : ~ (d \in assign_mask[k] /\ window[k][d] = w)
      PROVE  w \in bw_map'[d]
  <2>1. bw_map'[d] = bw_map[d] \ FreedWindows(K, assign_mask, assign_count, d)
    BY DEF FreeAllocations
  <2>2. w \notin FreedWindows(K, assign_mask, assign_count, d)
    BY <1>4 DEF FreedWindows
  <2> QED BY <2>1, <2>2
<1>5. \A g \in CMGs, b \in Blades : init_sync'[g][b] = init_sync[g][b]
  BY EmptyMaskRefused DEF FreeAllocations
<1> QED BY <1>1, <1>2, <1>3, <1>4, <1>5 DEF Freed

\* A close leaves the allocations alone or frees those of the closing task.
LEMMA CloseFreed ==
  ASSUME TypeOK, NEW t \in Threads, NEW c \in CPUs, Close(t, c)
  PROVE  Untouched \/ Freed(Allocations(t))
<1>1. CASE active_count > 0 /\ t \in task_list
  <2>1. FreeAllocations(Allocations(t), assign_mask, assign_count, bw_map, assign_sync)
    BY <1>1 DEF Close
  <2>2. Allocations(t) \in SUBSET allocs
    BY DEF Allocations
  <2> QED BY <2>1, <2>2, FreeAllocationsFreed
<1>2. CASE ~ (active_count > 0 /\ t \in task_list)
  BY <1>2 DEF Close, Untouched, bookkeeping
<1> QED BY <1>1, <1>2

\* A free by the owner frees its allocation.
LEMMA FreeByOwnerFreed ==
  ASSUME TypeOK, NEW t \in Threads, NEW c \in CPUs, NEW g \in CMGs, NEW b \in Blades,
         FreeByOwner(t, c, g, b)
  PROVE  <<t, g, b>> \in allocs /\ Freed({<<t, g, b>>})
BY FreeAllocationsFreed DEF FreeByOwner

\* A free by another task of the group, on the last CPU of the allocation.
LEMMA LastMemberFreed ==
  ASSUME TypeOK, NEW t \in Threads, NEW m \in Threads, NEW c \in CPUs, NEW g \in CMGs,
         NEW b \in Blades, FreeByGroupMember(t, m, c, g, b),
         RemainingCpus(<<m, g, b>>, c) = {}
  PROVE  Freed({<<m, g, b>>})
<1> DEFINE k  == <<m, g, b>>
           assigned == c \in assign_mask[k]
           am == [assign_mask EXCEPT ![k] = @ \ {c}]
           ac == [assign_count EXCEPT ![k] = CountWithout(k, c)]
           bm == [bw_map EXCEPT ![c] = IF assigned THEN @ \ {window[k][c]} ELSE @]
           as == [assign_sync EXCEPT ![c] =
                    IF assigned THEN AssignSyncWritten(@, 0, FALSE, 0) ELSE @]
<1>1. FreeAllocations({k}, am, ac, bm, as) /\ k \in allocs
  BY DEF FreeByGroupMember
<1>2. k \in Keys
  BY KeyFacts
<1>3. \A d \in CPUs : \A w \in bw_map[d] :
        ~ (d \in assign_mask[k] /\ window[k][d] = w) => w \in bm[d]
  BY DEF TypeOK
<1>4. am[k] \subseteq assign_mask[k]
  BY <1>2 DEF TypeOK
<1> HIDE DEF k, am, ac, bm, as
<1>5. allocs' = allocs \ {k}
  BY <1>1 DEF FreeAllocations
<1>6. \A j \in allocs \ {k} : /\ cpumask'[j] = cpumask[j]
                              /\ assign_mask'[j] = assign_mask[j]
                              /\ assign_count'[j] = assign_count[j]
                              /\ window'[j] = window[j]
  BY <1>1 DEF FreeAllocations, TypeOK
<1>7. \A e \in CMGs : bb_active'[e] = bb_active[e] \ BladesOf({k}, e)
  BY <1>1 DEF FreeAllocations
<1>8. ASSUME NEW d \in CPUs, NEW w \in bw_map[d],
             \A j \in {k} : ~ (d \in assign_mask[j] /\ window[j][d] = w)
      PROVE  w \in bw_map'[d]
  <2>1. bw_map'[d] = bm[d] \ FreedWindows({k}, am, ac, d)
    BY <1>1 DEF FreeAllocations
  <2>2. w \notin FreedWindows({k}, am, ac, d)
    BY <1>4, <1>8 DEF FreedWindows
  <2> QED BY <1>3, <1>8, <2>1, <2>2
<1>9. \A e \in CMGs, x \in Blades : init_sync'[e][x] = init_sync[e][x]
  BY <1>1, EmptyMaskRefused DEF FreeAllocations
<1>10. Freed({k})
  BY <1>5, <1>6, <1>7, <1>8, <1>9 DEF Freed
<1> QED BY <1>10 DEF k

\* The registers of the other CPUs are reset without touching a blade.
LEMMA ResetCpuUntouched ==
  ASSUME TypeOK, NEW s \in CPUs, NEW d \in CPUs, ResetCpu(s, d)
  PROVE  Untouched
<1>1. init_sync' = [g \in CMGs |-> BladesReset(g, d)]
  BY DEF ResetCpu, ResetRegisters
<1>2. \A g \in CMGs : BladesReset(g, d) = init_sync[g]
  BY EmptyMaskRefused DEF BladesReset, TypeOK
<1>3. init_sync' = init_sync
  BY <1>1, <1>2 DEF TypeOK
<1> QED BY <1>3 DEF ResetCpu, Untouched, bookkeeping

\* The allocate ioctl takes a free blade.
LEMMA AllocateBladeAllocated ==
  ASSUME TypeOK, NEW t \in Threads, NEW c \in CPUs, NEW g \in CMGs,
         NEW mask \in SUBSET CPUs, AllocateBlade(t, c, g, mask)
  PROVE  \E k \in Keys : Task(k) \in RegisteredTaskMap(t) /\ Allocated(k, mask)
<1>1. PICK bit \in Blades, m \in RegisteredTaskMap(t) :
        AllocateBlade(t, c, g, mask)!5!(bit, m)
  BY DEF AllocateBlade
<1> DEFINE k == <<m, g, bit>>
<1>2. m \in Threads
  BY DEF RegisteredTaskMap, TaskMap, TypeOK
<1>3. k \in Keys /\ Task(k) = m /\ Cmg(k) = g /\ Blade(k) = bit
  BY <1>2, KeyFacts
<1>4. mask # {} /\ mask \subseteq PEs(g)
  <2>1. Cardinality(mask) >= 2 /\ \A e \in mask : cmgOf[e] = g
    BY DEF AllocateBlade, ValidCpumask
  <2>2. Cardinality({}) = 0
    BY FS_EmptySet
  <2> QED BY <2>1, <2>2 DEF PEs
<1>5. bit \notin bb_active[g]
  BY <1>1 DEF IsFirstZeroBit
<1>6. /\ allocs'       = allocs \cup {k}
      /\ cpumask'      = [cpumask EXCEPT ![k] = mask]
      /\ assign_mask'  = [assign_mask EXCEPT ![k] = {}]
      /\ assign_count' = [assign_count EXCEPT ![k] = 0]
      /\ window'       = [window EXCEPT ![k] = NoWindows]
      /\ bb_active'    = [bb_active EXCEPT ![g] = @ \cup {bit}]
      /\ init_sync'    = [init_sync EXCEPT ![g][bit] = InitSyncWritten(@, mask)]
  BY <1>1 DEF NewAllocation
<1>7. InitSyncWritten(init_sync[g][bit], mask) = mask
  BY <1>4 DEF InitSyncWritten
<1>8. bw_map' = bw_map
  BY DEF AllocateBlade
<1> HIDE DEF k
<1>9. /\ cpumask'[k] = mask /\ assign_mask'[k] = {} /\ assign_count'[k] = 0
      /\ window'[k] = NoWindows
  BY <1>3, <1>6 DEF TypeOK
<1>10. OthersKept(k)
  BY <1>6 DEF OthersKept, TypeOK
<1>11. \A h \in CMGs : bb_active'[h] = IF h = g THEN bb_active[h] \cup {bit}
                                              ELSE bb_active[h]
  BY <1>6 DEF TypeOK
<1>12. \A h \in CMGs, b \in Blades :
         init_sync'[h][b] = IF h = g /\ b = bit THEN mask ELSE init_sync[h][b]
  BY <1>6, <1>7 DEF TypeOK
<1>13. Allocated(k, mask)
  BY <1>3, <1>4, <1>5, <1>6, <1>8, <1>9, <1>10, <1>11, <1>12 DEF Allocated
<1> QED BY <1>3, <1>13

LEMMA AssignBladeAssigned ==
  ASSUME TypeOK, NEW t \in Threads, NEW m \in Threads, NEW c \in CPUs, NEW b \in Blades,
         NEW arg, NEW win \in Windows, AssignBlade(t, m, c, b, arg, win)
  PROVE  Assigned(<<m, cmgOf[c], b>>, c, win)
<1> DEFINE k == <<m, cmgOf[c], b>>
<1>1. k \in Keys
  BY KeyFacts, TopologyAssumption
<1>2. /\ k \in allocs /\ c \in cpumask[k]
      /\ win \in FreeWindows(c)
      /\ window'       = [window EXCEPT ![k][c] = win]
      /\ bw_map'       = [bw_map EXCEPT ![c] = @ \cup {win}]
      /\ assign_mask'  = [assign_mask EXCEPT ![k] = @ \cup {c}]
      /\ assign_count' = [assign_count EXCEPT ![k] = @ + 1]
      /\ UNCHANGED <<allocs, cpumask, bb_active, init_sync>>
  BY DEF AssignBlade
<1> HIDE DEF k
<1>3. win \notin bw_map[c]
  BY <1>2 DEF FreeWindows
<1>4. /\ window'[k][c] = win
      /\ \A d \in CPUs \ {c} : window'[k][d] = window[k][d]
      /\ \A j \in Keys \ {k} : window'[j] = window[j]
  BY <1>1, <1>2 DEF TypeOK
<1>5. /\ bw_map'[c] = bw_map[c] \cup {win}
      /\ \A d \in CPUs \ {c} : bw_map'[d] = bw_map[d]
  BY <1>2 DEF TypeOK
<1>6. /\ assign_mask'[k] = assign_mask[k] \cup {c}
      /\ \A j \in Keys \ {k} : assign_mask'[j] = assign_mask[j]
  BY <1>1, <1>2 DEF TypeOK
<1>7. /\ assign_count'[k] = assign_count[k] + 1
      /\ \A j \in Keys \ {k} : assign_count'[j] = assign_count[j]
  BY <1>1, <1>2 DEF TypeOK
<1>8. Assigned(k, c, win)
  BY <1>1, <1>2, <1>3, <1>4, <1>5, <1>6, <1>7 DEF Assigned, OnlyOn, OthersKept
<1> QED BY <1>8 DEF k

LEMMA UnassignBladeUnassigned ==
  ASSUME TypeOK, NEW t \in Threads, NEW m \in Threads, NEW c \in CPUs, NEW b \in Blades,
         UnassignBlade(t, m, c, b)
  PROVE  Unassigned(<<m, cmgOf[c], b>>, c)
<1> DEFINE k == <<m, cmgOf[c], b>>
<1>1. k \in Keys
  BY KeyFacts, TopologyAssumption
<1>2. /\ k \in allocs
      /\ window[k][c] \in Windows
      /\ window'       = [window EXCEPT ![k][c] = A64FX_HWB_UNASSIGNED_WIN]
      /\ bw_map'       = [bw_map EXCEPT ![c] = @ \ {window[k][c]}]
      /\ assign_mask'  = [assign_mask EXCEPT ![k] = @ \ {c}]
      /\ assign_count' = [assign_count EXCEPT ![k] = @ - 1]
      /\ UNCHANGED <<allocs, cpumask, bb_active, init_sync>>
  BY DEF UnassignBlade
<1> HIDE DEF k
<1>3. /\ window'[k][c] = A64FX_HWB_UNASSIGNED_WIN
      /\ \A d \in CPUs \ {c} : window'[k][d] = window[k][d]
      /\ \A j \in Keys \ {k} : window'[j] = window[j]
  BY <1>1, <1>2 DEF TypeOK
<1>4. /\ bw_map'[c] = bw_map[c] \ {window[k][c]}
      /\ \A d \in CPUs \ {c} : bw_map'[d] = bw_map[d]
  BY <1>2 DEF TypeOK
<1>5. /\ assign_mask'[k] = assign_mask[k] \ {c}
      /\ \A j \in Keys \ {k} : assign_mask'[j] = assign_mask[j]
  BY <1>1, <1>2 DEF TypeOK
<1>6. /\ assign_count'[k] = assign_count[k] - 1
      /\ \A j \in Keys \ {k} : assign_count'[j] = assign_count[j]
  BY <1>1, <1>2 DEF TypeOK
<1>7. Unassigned(k, c)
  BY <1>1, <1>2, <1>3, <1>4, <1>5, <1>6 DEF Unassigned, OnlyOn, OthersKept
<1> QED BY <1>7 DEF k

\* A free by another task of the group while CPUs are left.
LEMMA MemberLeft ==
  ASSUME TypeOK, NEW t \in Threads, NEW m \in Threads, NEW c \in CPUs, NEW g \in CMGs,
         NEW b \in Blades, FreeByGroupMember(t, m, c, g, b),
         RemainingCpus(<<m, g, b>>, c) # {}
  PROVE  Left(<<m, g, b>>, c)
<1> DEFINE k        == <<m, g, b>>
           assigned == c \in assign_mask[k]
           rest     == cpumask[k] \ {c}
<1>1. k \in Keys /\ Cmg(k) = g /\ Blade(k) = b
  BY KeyFacts
<1>2. rest # {}
  BY DEF RemainingCpus
<1>3. /\ k \in allocs /\ c \in cpumask[k]
      /\ cpumask'      = [cpumask EXCEPT ![k] = rest]
      /\ assign_mask'  = [assign_mask EXCEPT ![k] = @ \ {c}]
      /\ assign_count' = [assign_count EXCEPT ![k] = CountWithout(k, c)]
      /\ window' = [window EXCEPT ![k][c] =
                       IF assigned THEN A64FX_HWB_UNASSIGNED_WIN ELSE @]
      /\ bw_map' = [bw_map EXCEPT ![c] = IF assigned THEN @ \ {window[k][c]} ELSE @]
      /\ init_sync' = [init_sync EXCEPT ![g][b] = InitSyncWritten(@, rest)]
      /\ UNCHANGED <<allocs, bb_active>>
  BY DEF FreeByGroupMember, RemainingCpus
<1>4. InitSyncWritten(init_sync[g][b], rest) = rest
  BY <1>2 DEF InitSyncWritten
<1> HIDE DEF k, rest
<1>5. /\ cpumask'[k] = rest
      /\ \A j \in Keys \ {k} : cpumask'[j] = cpumask[j]
  BY <1>1, <1>3 DEF TypeOK
<1>6. /\ assign_mask'[k] = assign_mask[k] \ {c}
      /\ \A j \in Keys \ {k} : assign_mask'[j] = assign_mask[j]
  BY <1>1, <1>3 DEF TypeOK
<1>7. /\ assign_count'[k] = CountWithout(k, c)
      /\ \A j \in Keys \ {k} : assign_count'[j] = assign_count[j]
  BY <1>1, <1>3 DEF TypeOK
<1>8. /\ \A d \in CPUs \ {c} : window'[k][d] = window[k][d] /\ bw_map'[d] = bw_map[d]
      /\ \A j \in Keys \ {k} : window'[j] = window[j]
  BY <1>1, <1>3 DEF TypeOK
<1>9. /\ c \in assign_mask[k] => /\ window'[k][c] = A64FX_HWB_UNASSIGNED_WIN
                                 /\ bw_map'[c] = bw_map[c] \ {window[k][c]}
      /\ c \notin assign_mask[k] => window'[k][c] = window[k][c] /\ bw_map'[c] = bw_map[c]
  BY <1>1, <1>3 DEF TypeOK
<1>10. \A h \in CMGs, x \in Blades :
         init_sync'[h][x] = IF h = g /\ x = b THEN rest ELSE init_sync[h][x]
  <2>1. init_sync' = [init_sync EXCEPT ![g][b] = rest]
    BY <1>3, <1>4
  <2> QED BY <2>1 DEF TypeOK
<1>11. OthersKept(k)
  BY <1>5, <1>6, <1>7, <1>8 DEF OthersKept
<1>12. OnlyOn(k, c)
  BY <1>3, <1>8, <1>11 DEF OnlyOn
<1>13. c \in cpumask[k] /\ cpumask'[k] = cpumask[k] \ {c} /\ cpumask'[k] # {}
  BY <1>2, <1>3, <1>5 DEF rest
<1>14. \A h \in CMGs, x \in Blades :
         init_sync'[h][x] = IF h = Cmg(k) /\ x = Blade(k) THEN cpumask'[k]
                                                         ELSE init_sync[h][x]
  BY <1>1, <1>5, <1>10
<1>15. Left(k, c)
  BY <1>6, <1>7, <1>9, <1>12, <1>13, <1>14 DEF Left
<1> QED BY <1>15 DEF k

-----------------------------------------------------------------------------
(***************************************************************************)
(* Every step has one of the shapes                                        *)
(***************************************************************************)
\* Allocation k is of the thread group of t.
Own(t, k) == tgid[Task(k)] = tgid[t]

\* What a task does changes allocations of its own group only.
ClientShape(t) ==
  \/ Untouched
  \/ \E K \in SUBSET allocs : Freed(K) /\ \A k \in K : Own(t, k)
  \/ \E k \in Keys, mask \in SUBSET CPUs : Allocated(k, mask) /\ Own(t, k)
  \/ \E k \in allocs, c \in CPUs :
       Own(t, k) /\ (Left(k, c) \/ Unassigned(k, c) \/ \E win \in Windows : Assigned(k, c, win))

LEMMA ClientStepShape ==
  ASSUME TypeOK, NEW t \in Threads, ClientStep(t)
  PROVE  ClientShape(t)
<1> USE DEF ClientShape
<1>1. CASE Open(t)
  BY <1>1 DEF Open, Untouched, bookkeeping, registers
<1>2. ASSUME NEW c \in CPUs, Close(t, c) PROVE ClientShape(t)
  <2>1. Untouched \/ Freed(Allocations(t))
    BY <1>2, CloseFreed
  <2>2. Allocations(t) \in SUBSET allocs /\ \A k \in Allocations(t) : Own(t, k)
    BY DEF Allocations, Own
  <2> QED BY <2>1, <2>2
<1>3. ASSUME NEW c \in CPUs, NEW g \in CMGs, NEW mask \in SUBSET CPUs,
             AllocateBlade(t, c, g, mask)
      PROVE  ClientShape(t)
  <2>1. PICK k \in Keys : Task(k) \in RegisteredTaskMap(t) /\ Allocated(k, mask)
    BY <1>3, AllocateBladeAllocated
  <2>2. Own(t, k)
    BY <2>1 DEF RegisteredTaskMap, TaskMap, Own
  <2> QED BY <2>1, <2>2
<1>4. ASSUME NEW g \in CMGs, AllocateNothing(t, g) PROVE ClientShape(t)
  BY <1>4 DEF AllocateNothing, Untouched, bookkeeping, registers
<1>5. ASSUME NEW c \in CPUs, NEW g \in CMGs, NEW b \in Blades, FreeByOwner(t, c, g, b)
      PROVE  ClientShape(t)
  <2>1. <<t, g, b>> \in allocs /\ Freed({<<t, g, b>>})
    BY <1>5, FreeByOwnerFreed
  <2>2. Own(t, <<t, g, b>>)
    BY KeyFacts DEF Own
  <2> QED BY <2>1, <2>2
<1>6. ASSUME NEW m \in Threads, NEW c \in CPUs, NEW g \in CMGs, NEW b \in Blades,
             FreeByGroupMember(t, m, c, g, b)
      PROVE  ClientShape(t)
  <2> DEFINE k == <<m, g, b>>
  <2>1. k \in allocs /\ Own(t, k)
    BY <1>6, KeyFacts DEF FreeByGroupMember, TaskMap, Own
  <2>2. Freed({k}) \/ Left(k, c)
    BY <1>6, LastMemberFreed, MemberLeft
  <2> HIDE DEF k
  <2> QED BY <2>1, <2>2
<1>7. ASSUME NEW m \in Threads, NEW c \in CPUs, NEW b \in Blades, NEW arg \in WindowArgs,
             NEW win \in Windows, AssignBlade(t, m, c, b, arg, win)
      PROVE  ClientShape(t)
  <2> DEFINE k == <<m, cmgOf[c], b>>
  <2>1. k \in allocs /\ Own(t, k)
    BY <1>7, KeyFacts, TopologyAssumption DEF AssignBlade, TaskMap, Own
  <2>2. Assigned(k, c, win)
    BY <1>7, AssignBladeAssigned
  <2> HIDE DEF k
  <2> QED BY <2>1, <2>2
<1>8. ASSUME NEW m \in Threads, NEW c \in CPUs, NEW b \in Blades, UnassignBlade(t, m, c, b)
      PROVE  ClientShape(t)
  <2> DEFINE k == <<m, cmgOf[c], b>>
  <2>1. k \in allocs /\ Own(t, k)
    BY <1>8, KeyFacts, TopologyAssumption DEF UnassignBlade, TaskMap, Own
  <2>2. Unassigned(k, c)
    BY <1>8, UnassignBladeUnassigned
  <2> HIDE DEF k
  <2> QED BY <2>1, <2>2
<1> HIDE DEF ClientShape
<1> QED
  BY <1>1, <1>2, <1>3, <1>4, <1>5, <1>6, <1>7, <1>8 DEF ClientStep

LEMMA StepShape ==
  ASSUME TypeOK, [Next]_vars
  PROVE  Untouched \/ Dropped \/ \E t \in Threads : ClientShape(t)
<1>1. ASSUME NEW t \in Threads, NEW c \in CPUs, Reset(t, c) PROVE Dropped
  BY <1>1 DEF Reset, Dropped
<1>2. CASE UNCHANGED vars
  BY <1>2 DEF Untouched, vars, bookkeeping, registers
<1> QED
  BY <1>1, <1>2, ClientStepShape, ResetCpuUntouched DEF Next

-----------------------------------------------------------------------------
(***************************************************************************)
(* Blades                                                                  *)
(***************************************************************************)
LEMMA BladeOwnershipStep ==
  ASSUME TypeOK, BladeOwnership, [Next]_vars
  PROVE  BladeOwnership'
<1> USE DEF BladeOwnership
<1>1. CASE Untouched
  BY <1>1 DEF Untouched
<1>2. CASE Dropped
  BY <1>2 DEF Dropped
<1>3. ASSUME NEW K \in SUBSET allocs, Freed(K) PROVE BladeOwnership'
  <2>1. /\ allocs' = allocs \ K
        /\ \A g \in CMGs : bb_active'[g] = bb_active[g] \ BladesOf(K, g)
    BY <1>3 DEF Freed
  <2>2. \A k \in allocs : Cmg(k) \in CMGs
    BY KeyFacts DEF TypeOK
  <2>3. ASSUME NEW g \in CMGs, NEW b \in Blades, b \in bb_active'[g]
        PROVE  \E k \in allocs' : Cmg(k) = g /\ Blade(k) = b
    BY <2>1, <2>3 DEF BladesOf
  <2>4. ASSUME NEW k \in allocs' PROVE Blade(k) \in bb_active'[Cmg(k)]
    BY <2>1, <2>2 DEF BladesOf
  <2> QED BY <2>1, <2>3, <2>4
<1>4. ASSUME NEW k \in Keys, NEW mask, Allocated(k, mask) PROVE BladeOwnership'
  <2>1. /\ Blade(k) \notin bb_active[Cmg(k)]
        /\ allocs' = allocs \cup {k}
        /\ \A g \in CMGs : bb_active'[g] = IF g = Cmg(k) THEN bb_active[g] \cup {Blade(k)}
                                                        ELSE bb_active[g]
    BY <1>4 DEF Allocated
  <2>2. \A j \in allocs \cup {k} : Cmg(j) \in CMGs
    BY KeyFacts DEF TypeOK
  <2>3. ASSUME NEW g \in CMGs, NEW b \in Blades, b \in bb_active'[g]
        PROVE  \E j \in allocs' : Cmg(j) = g /\ Blade(j) = b
    <3>1. CASE b \in bb_active[g]
      BY <2>1, <3>1
    <3>2. CASE b \notin bb_active[g]
      <4> HIDE DEF BladeOwnership
      <4>1. Cmg(k) = g /\ Blade(k) = b
        <5>1. bb_active'[g] = IF g = Cmg(k) THEN bb_active[g] \cup {Blade(k)}
                                            ELSE bb_active[g]
          BY <2>1
        <5> QED BY <2>3, <3>2, <5>1
      <4>2. k \in allocs'
        BY <2>1
      <4> QED BY <4>1, <4>2
    <3> QED BY <3>1, <3>2
  <2>4. ASSUME NEW j \in allocs' PROVE Blade(j) \in bb_active'[Cmg(j)]
    BY <2>1, <2>2
  <2>5. ASSUME NEW i \in allocs', NEW j \in allocs', Cmg(i) = Cmg(j), Blade(i) = Blade(j)
        PROVE  i = j
    BY <2>1, <2>5
  <2> QED BY <2>3, <2>4, <2>5
<1>5. ASSUME NEW k, NEW c, OnlyOn(k, c) PROVE BladeOwnership'
  BY <1>5 DEF OnlyOn
<1> QED
  BY <1>1, <1>2, <1>3, <1>4, <1>5, StepShape
  DEF ClientShape, Left, Unassigned, Assigned

-----------------------------------------------------------------------------
(***************************************************************************)
(* The participants of a barrier                                           *)
(***************************************************************************)
LEMMA BladeProgrammedStep ==
  ASSUME TypeOK, BladeOwnership, BladeProgrammed, [Next]_vars
  PROVE  BladeProgrammed'
<1>1. \A k \in allocs : k \in Keys /\ Cmg(k) \in CMGs /\ Blade(k) \in Blades
  BY KeyFacts DEF TypeOK
<1>2. CASE Untouched
  BY <1>2 DEF Untouched, BladeProgrammed
<1>3. CASE Dropped
  BY <1>3 DEF Dropped, BladeProgrammed
<1>4. ASSUME NEW K \in SUBSET allocs, Freed(K) PROVE BladeProgrammed'
  BY <1>1, <1>4 DEF Freed, BladeProgrammed
<1>5. ASSUME NEW k \in Keys, NEW mask, Allocated(k, mask) PROVE BladeProgrammed'
  <2>1. \A j \in allocs : ~ (Cmg(j) = Cmg(k) /\ Blade(j) = Blade(k))
    BY <1>5 DEF Allocated, BladeOwnership
  <2>2. ASSUME NEW j \in allocs
        PROVE  /\ j \in Keys \ {k}
               /\ init_sync'[Cmg(j)][Blade(j)] = init_sync[Cmg(j)][Blade(j)]
    BY <1>1, <1>5, <2>1 DEF Allocated
  <2>3. Cmg(k) \in CMGs /\ Blade(k) \in Blades
    BY KeyFacts
  <2> QED BY <1>5, <2>2, <2>3 DEF Allocated, OthersKept, BladeProgrammed
<1>6. ASSUME NEW k \in allocs, NEW c \in CPUs, Left(k, c) PROVE BladeProgrammed'
  <2>1. ASSUME NEW j \in allocs, j # k
        PROVE  /\ j \in Keys \ {k}
               /\ init_sync'[Cmg(j)][Blade(j)] = init_sync[Cmg(j)][Blade(j)]
    <3>1. ~ (Cmg(j) = Cmg(k) /\ Blade(j) = Blade(k))
      BY <2>1 DEF BladeOwnership
    <3>2. Cmg(j) \in CMGs /\ Blade(j) \in Blades /\ j \in Keys
      BY <1>1
    <3>3. \A g \in CMGs, b \in Blades :
            ~ (g = Cmg(k) /\ b = Blade(k)) => init_sync'[g][b] = init_sync[g][b]
      BY <1>6 DEF Left
    <3> QED BY <2>1, <3>1, <3>2, <3>3
  <2>2. init_sync'[Cmg(k)][Blade(k)] = cpumask'[k]
    BY <1>1, <1>6 DEF Left
  <2> QED BY <1>6, <2>1, <2>2 DEF Left, OnlyOn, OthersKept, BladeProgrammed
<1>7. ASSUME NEW k \in allocs, NEW c \in CPUs, Unassigned(k, c) PROVE BladeProgrammed'
  BY <1>1, <1>7 DEF Unassigned, OnlyOn, OthersKept, BladeProgrammed
<1>8. ASSUME NEW k \in allocs, NEW c \in CPUs, NEW win, Assigned(k, c, win)
      PROVE  BladeProgrammed'
  BY <1>1, <1>8 DEF Assigned, OnlyOn, OthersKept, BladeProgrammed
<1> QED
  BY <1>2, <1>3, <1>4, <1>5, <1>6, <1>7, <1>8, StepShape DEF ClientShape

-----------------------------------------------------------------------------
(***************************************************************************)
(* Windows                                                                 *)
(***************************************************************************)
\* WindowOwnership, one CPU and one or two allocations at a time.
Recorded(k, c) ==
  /\ c \in assign_mask[k] <=> window[k][c] # A64FX_HWB_UNASSIGNED_WIN
  /\ c \in assign_mask[k] => window[k][c] \in bw_map[c]

Clash(j, k, c) ==
  c \in assign_mask[j] /\ c \in assign_mask[k] /\ window[j][c] = window[k][c]

LEMMA WindowOwnershipParts ==
  WindowOwnership <=> /\ \A k \in allocs, c \in CPUs : Recorded(k, c)
                      /\ \A j, k \in allocs, c \in CPUs : Clash(j, k, c) => j = k
BY DEF WindowOwnership, Recorded, Clash

LEMMA WindowOwnershipPartsNext ==
  WindowOwnership' <=> /\ \A k \in allocs', c \in CPUs : Recorded(k, c)'
                       /\ \A j, k \in allocs', c \in CPUs : Clash(j, k, c)' => j = k
BY DEF WindowOwnership, Recorded, Clash

LEMMA WindowOwnershipStep ==
  ASSUME TypeOK, WindowOwnership, [Next]_vars
  PROVE  WindowOwnership'
<1>1. /\ \A k \in allocs, c \in CPUs : Recorded(k, c)
      /\ \A j, k \in allocs, c \in CPUs : Clash(j, k, c) => j = k
  BY WindowOwnershipParts
<1>2. \A k \in allocs : k \in Keys
  BY DEF TypeOK
<1>3. CASE Untouched
  BY <1>3 DEF Untouched, WindowOwnership
<1>4. CASE Dropped
  BY <1>4 DEF Dropped, WindowOwnership
<1>5. ASSUME NEW K \in SUBSET allocs, Freed(K) PROVE WindowOwnership'
  <2>1. /\ allocs' = allocs \ K
        /\ \A k \in allocs \ K : assign_mask'[k] = assign_mask[k] /\ window'[k] = window[k]
    BY <1>5 DEF Freed
  <2>2. ASSUME NEW k \in allocs \ K, NEW c \in CPUs, c \in assign_mask[k]
        PROVE  window[k][c] \in bw_map'[c]
    <3>1. \A j \in K : ~ (c \in assign_mask[j] /\ window[j][c] = window[k][c])
      BY <1>1, <2>2 DEF Clash
    <3>2. window[k][c] \in bw_map[c]
      BY <1>1, <2>2 DEF Recorded
    <3> QED BY <1>5, <3>1, <3>2 DEF Freed
  <2>3. ASSUME NEW k \in allocs', NEW c \in CPUs PROVE Recorded(k, c)'
    BY <1>1, <2>1, <2>2 DEF Recorded
  <2>4. ASSUME NEW j \in allocs', NEW k \in allocs', NEW c \in CPUs, Clash(j, k, c)'
        PROVE  j = k
    BY <1>1, <2>1, <2>4 DEF Clash
  <2> QED BY <2>3, <2>4, WindowOwnershipPartsNext
<1>6. ASSUME NEW k \in Keys, NEW mask, Allocated(k, mask) PROVE WindowOwnership'
  <2>1. /\ allocs' = allocs \cup {k} /\ bw_map' = bw_map
        /\ assign_mask'[k] = {} /\ \A c \in CPUs : window'[k][c] = A64FX_HWB_UNASSIGNED_WIN
        /\ \A j \in allocs \ {k} : assign_mask'[j] = assign_mask[j] /\ window'[j] = window[j]
    BY <1>2, <1>6 DEF Allocated, OthersKept, NoWindows
  <2>2. ASSUME NEW j \in allocs', NEW c \in CPUs PROVE Recorded(j, c)'
    <3>1. CASE j = k
      BY <2>1, <3>1 DEF Recorded
    <3>2. CASE j # k
      BY <1>1, <2>1, <3>2 DEF Recorded
    <3> QED BY <3>1, <3>2
  <2>3. ASSUME NEW i \in allocs', NEW j \in allocs', NEW c \in CPUs, Clash(i, j, c)'
        PROVE  i = j
    <3>1. i # k /\ j # k
      BY <2>1, <2>3 DEF Clash
    <3> QED BY <1>1, <2>1, <2>3, <3>1 DEF Clash
  <2> QED BY <2>2, <2>3, WindowOwnershipPartsNext
<1>7. ASSUME NEW k \in allocs, NEW c \in CPUs, Left(k, c) \/ Unassigned(k, c)
      PROVE  WindowOwnership'
  <2>1. /\ allocs' = allocs
        /\ \A j \in allocs \ {k} : assign_mask'[j] = assign_mask[j] /\ window'[j] = window[j]
        /\ \A d \in CPUs \ {c} : window'[k][d] = window[k][d] /\ bw_map'[d] = bw_map[d]
        /\ assign_mask'[k] = assign_mask[k] \ {c}
    BY <1>2, <1>7 DEF Left, Unassigned, OnlyOn, OthersKept
  <2>2. window'[k][c] = A64FX_HWB_UNASSIGNED_WIN
    BY <1>1, <1>7 DEF Left, Unassigned, Recorded
  <2>3. ASSUME NEW j \in allocs, j # k, c \in assign_mask[j]
        PROVE  window[j][c] \in bw_map'[c]
    <3>1. window[j][c] \in bw_map[c]
      BY <1>1, <2>3 DEF Recorded
    <3>2. c \in assign_mask[k] => window[j][c] # window[k][c]
      BY <1>1, <2>3 DEF Clash
    <3>3. CASE Left(k, c)
      BY <3>1, <3>2, <3>3 DEF Left
    <3>4. CASE Unassigned(k, c)
      <4>1. c \in assign_mask[k]
        BY <1>1, <3>4, IndexFacts DEF Unassigned, Recorded
      <4> QED BY <3>1, <3>2, <3>4, <4>1 DEF Unassigned
    <3> QED BY <1>7, <3>3, <3>4
  <2>4. ASSUME NEW j \in allocs', NEW d \in CPUs PROVE Recorded(j, d)'
    <3>1. CASE j = k /\ d = c
      BY <2>1, <2>2, <3>1 DEF Recorded
    <3>2. CASE j # k /\ d = c
      BY <1>1, <2>1, <2>3, <3>2 DEF Recorded
    <3>3. CASE d # c
      BY <1>1, <2>1, <3>3 DEF Recorded
    <3> QED BY <3>1, <3>2, <3>3
  <2>5. ASSUME NEW i \in allocs', NEW j \in allocs', NEW d \in CPUs, Clash(i, j, d)'
        PROVE  i = j
    <3>1. Clash(i, j, d)
      BY <2>1, <2>5 DEF Clash
    <3> QED BY <1>1, <2>1, <3>1
  <2> QED BY <2>4, <2>5, WindowOwnershipPartsNext
<1>8. ASSUME NEW k \in allocs, NEW c \in CPUs, NEW win, Assigned(k, c, win)
      PROVE  WindowOwnership'
  <2>1. /\ allocs' = allocs
        /\ \A j \in allocs \ {k} : assign_mask'[j] = assign_mask[j] /\ window'[j] = window[j]
        /\ \A d \in CPUs \ {c} : window'[k][d] = window[k][d] /\ bw_map'[d] = bw_map[d]
        /\ assign_mask'[k] = assign_mask[k] \cup {c}
        /\ window'[k][c] = win /\ bw_map'[c] = bw_map[c] \cup {win}
    BY <1>2, <1>8 DEF Assigned, OnlyOn, OthersKept
  <2>2. win # A64FX_HWB_UNASSIGNED_WIN /\ win \notin bw_map[c]
    BY <1>8, IndexFacts DEF Assigned
  <2>3. ASSUME NEW j \in allocs', NEW d \in CPUs PROVE Recorded(j, d)'
    <3>1. CASE j = k /\ d = c
      BY <2>1, <2>2, <3>1 DEF Recorded
    <3>2. CASE j # k /\ d = c
      BY <1>1, <2>1, <3>2 DEF Recorded
    <3>3. CASE d # c
      BY <1>1, <2>1, <3>3 DEF Recorded
    <3> QED BY <3>1, <3>2, <3>3
  <2>4. \A j \in allocs \ {k} : c \in assign_mask[j] => window[j][c] # win
    BY <1>1, <2>2 DEF Recorded
  <2>5. ASSUME NEW i \in allocs', NEW j \in allocs', NEW d \in CPUs, Clash(i, j, d)'
        PROVE  i = j
    <3>1. CASE d # c
      BY <1>1, <2>1, <2>5, <3>1 DEF Clash
    <3>2. CASE d = c /\ i # k /\ j # k
      BY <1>1, <2>1, <2>5, <3>2 DEF Clash
    <3>3. CASE d = c /\ (i = k \/ j = k)
      BY <2>1, <2>4, <2>5, <3>3 DEF Clash
    <3> QED BY <3>1, <3>2, <3>3
  <2> QED BY <2>3, <2>5, WindowOwnershipPartsNext
<1> QED
  BY <1>3, <1>4, <1>5, <1>6, <1>7, <1>8, StepShape DEF ClientShape

-----------------------------------------------------------------------------
(***************************************************************************)
(* The count of assigned CPUs                                              *)
(***************************************************************************)
LEMMA MaskFinite ==
  ASSUME TypeOK, NEW k \in Keys
  PROVE  /\ IsFiniteSet(assign_mask[k]) /\ Cardinality(assign_mask[k]) \in Nat
         /\ assign_count[k] \in Int
<1>1. assign_mask[k] \subseteq CPUs
  BY DEF TypeOK
<1>2. IsFiniteSet(assign_mask[k])
  BY <1>1, TopologyAssumption, FS_Subset
<1> QED BY <1>2, FS_CardinalityType DEF TypeOK

\* UNASSIGN and the free by a group member count down only with a CPU.
LEMMA AssignCountStep ==
  ASSUME TypeOK, WindowOwnership, AssignCountCoversMask, [Next]_vars
  PROVE  AssignCountCoversMask'
<1> USE DEF AssignCountCoversMask
<1>1. \A k \in allocs : k \in Keys
  BY DEF TypeOK
<1>2. CASE Untouched
  BY <1>2 DEF Untouched
<1>3. CASE Dropped
  BY <1>3 DEF Dropped
<1>4. ASSUME NEW K \in SUBSET allocs, Freed(K) PROVE AssignCountCoversMask'
  BY <1>4 DEF Freed
<1>5. ASSUME NEW k \in Keys, NEW mask, Allocated(k, mask) PROVE AssignCountCoversMask'
  <2>1. assign_count'[k] >= Cardinality(assign_mask'[k])
    BY <1>5, FS_EmptySet DEF Allocated
  <2>2. ASSUME NEW j \in allocs', j # k
        PROVE  assign_count'[j] >= Cardinality(assign_mask'[j])
    BY <1>1, <1>5, <2>2 DEF Allocated, OthersKept
  <2> QED BY <2>1, <2>2
<1>6. ASSUME NEW k \in allocs, NEW c \in CPUs, OnlyOn(k, c),
             assign_count'[k] >= Cardinality(assign_mask'[k])
      PROVE  AssignCountCoversMask'
  BY <1>1, <1>6 DEF OnlyOn, OthersKept
<1>7. ASSUME NEW k \in allocs, NEW c \in CPUs, NEW win, Assigned(k, c, win)
      PROVE  AssignCountCoversMask'
  <2>1. assign_mask'[k] = assign_mask[k] \cup {c} /\ assign_count'[k] = assign_count[k] + 1
    BY <1>7 DEF Assigned
  <2>2. Cardinality(assign_mask[k] \cup {c}) <= Cardinality(assign_mask[k]) + 1
    BY <1>1, MaskFinite, FS_AddElement
  <2>3. Cardinality(assign_mask[k] \cup {c}) \in Nat
    <3>1. IsFiniteSet(assign_mask[k] \cup {c})
      BY <1>1, MaskFinite, FS_AddElement
    <3> QED BY <3>1, FS_CardinalityType
  <2>4. assign_count'[k] >= Cardinality(assign_mask'[k])
    BY <1>1, <2>1, <2>2, <2>3, MaskFinite
  <2> QED BY <1>6, <1>7, <2>4 DEF Assigned
<1>8. ASSUME NEW k \in allocs, NEW c \in CPUs, Left(k, c) \/ Unassigned(k, c)
      PROVE  AssignCountCoversMask'
  <2>1. assign_mask'[k] = assign_mask[k] \ {c}
    BY <1>8 DEF Left, Unassigned
  <2>2. CASE c \in assign_mask[k]
    <3>1. assign_count'[k] = assign_count[k] - 1
      BY <1>8, <2>2 DEF Left, Unassigned, CountWithout
    <3>2. Cardinality(assign_mask[k] \ {c}) = Cardinality(assign_mask[k]) - 1
      BY <1>1, <2>2, MaskFinite, FS_RemoveElement
    <3>3. assign_count'[k] >= Cardinality(assign_mask'[k])
      BY <1>1, <2>1, <3>1, <3>2, MaskFinite
    <3> QED BY <1>6, <1>8, <3>3 DEF Left, Unassigned
  <2>3. CASE c \notin assign_mask[k]
    <3>1. Left(k, c)
      BY <1>8, <2>3, IndexFacts DEF Unassigned, WindowOwnership
    <3>2. assign_count'[k] = assign_count[k] /\ assign_mask'[k] = assign_mask[k]
      BY <2>1, <2>3, <3>1 DEF Left, CountWithout
    <3> QED BY <1>6, <3>1, <3>2 DEF Left
  <2> QED BY <2>2, <2>3
<1> QED
  BY <1>2, <1>3, <1>4, <1>5, <1>7, <1>8, StepShape DEF ClientShape

-----------------------------------------------------------------------------
(***************************************************************************)
(* The invariant                                                           *)
(***************************************************************************)
Ownership ==
  /\ TypeOK
  /\ BladeOwnership
  /\ WindowOwnership
  /\ BladeProgrammed
  /\ AssignCountCoversMask

LEMMA InitOwnership == Init => Ownership
<1> SUFFICES ASSUME Init PROVE Ownership
  OBVIOUS
<1>1. allocs = {} /\ \A g \in CMGs : bb_active[g] = {}
  BY DEF Init
<1> QED
  BY <1>1, InitTypeOK
  DEF Ownership, BladeOwnership, WindowOwnership, BladeProgrammed, AssignCountCoversMask

LEMMA NextOwnership == Ownership /\ [Next]_vars => Ownership'
BY NextTypeOK, BladeOwnershipStep, WindowOwnershipStep, BladeProgrammedStep, AssignCountStep
DEF Ownership

LEMMA OwnershipInvariant == Spec => []Ownership
BY InitOwnership, NextOwnership, PTL DEF Spec

\* The blades marked in bb_active and the allocations of all processes are in
\* one-to-one correspondence, whatever the clients do: allocate never hands out
\* a blade twice and free_allocation() never meets an inactive one.
THEOREM BladesOwned == Spec => []BladeOwnership
<1>1. Ownership => BladeOwnership
  BY DEF Ownership
<1> QED BY <1>1, OwnershipInvariant, PTL

\* No window of a CPU is recorded by two allocations, and every recorded window
\* is marked in use.
THEOREM WindowsOwned == Spec => []WindowOwnership
<1>1. Ownership => WindowOwnership
  BY DEF Ownership
<1> QED BY <1>1, OwnershipInvariant, PTL

\* The BST_MASK of an allocated blade names exactly the CPUs of the allocation,
\* which are of its CMG and include all CPUs with a window.
THEOREM BladesProgrammed == Spec => []BladeProgrammed
<1>1. Ownership => BladeProgrammed
  BY DEF Ownership
<1> QED BY <1>1, OwnershipInvariant, PTL

\* assign_count never drops below the number of CPUs that have a window, so
\* free_allocation() visits all of them.
THEOREM CountCoversMask == Spec => []AssignCountCoversMask
<1>1. Ownership => AssignCountCoversMask
  BY DEF Ownership
<1> QED BY <1>1, OwnershipInvariant, PTL

-----------------------------------------------------------------------------
(***************************************************************************)
(* Action properties                                                       *)
(***************************************************************************)
\* A living allocation never gains a participant.
THEOREM ParticipantsOnlyLeave == Spec => CpumaskOnlyShrinks
<1> DEFINE Shrinks == \A k \in allocs \cap allocs' : cpumask'[k] \subseteq cpumask[k]
<1>1. ASSUME Ownership, [Next]_vars PROVE [Shrinks]_vars
  <2>1. \A k \in allocs : k \in Keys
    BY <1>1 DEF Ownership, TypeOK
  <2>2. CASE Untouched \/ Dropped
    BY <2>2 DEF Untouched, Dropped
  <2>3. ASSUME NEW K \in SUBSET allocs, Freed(K) PROVE Shrinks
    BY <2>3 DEF Freed
  <2>4. ASSUME NEW k \in Keys, NEW mask, Allocated(k, mask) PROVE Shrinks
    BY <1>1, <2>1, <2>4 DEF Allocated, OthersKept, Ownership, BladeOwnership
  <2>5. ASSUME NEW k \in allocs, NEW c, OnlyOn(k, c), cpumask'[k] \subseteq cpumask[k]
        PROVE  Shrinks
    BY <2>1, <2>5 DEF OnlyOn, OthersKept
  <2>6. ASSUME NEW k \in allocs, NEW c,
               Left(k, c) \/ Unassigned(k, c) \/ \E win \in Windows : Assigned(k, c, win)
        PROVE  Shrinks
    BY <2>5, <2>6 DEF Left, Unassigned, Assigned
  <2>7. TypeOK
    BY <1>1 DEF Ownership
  <2> QED
    BY <1>1, <2>2, <2>3, <2>4, <2>6, <2>7, StepShape DEF ClientShape
<1>2. Ownership /\ [Next]_vars => [Shrinks]_vars
  BY <1>1
<1>3. Spec => [][Shrinks]_vars
  BY <1>2, OwnershipInvariant, PTL DEF Spec
<1> QED BY <1>3 DEF CpumaskOnlyShrinks

\* Thread groups are isolated: no open, close or ioctl of a task, the reset
\* apart, changes an allocation of another group.
THEOREM GroupsIsolated == Spec => ForeignAllocationsKept
<1> DEFINE Kept == \A t \in Threads :
                     (\E k \in allocs : tgid[Task(k)] # tgid[t] /\ AllocationChanged(k))
                       => ~ ClientStep(t)
<1>1. ASSUME TypeOK, NEW t \in Threads, NEW k \in allocs, tgid[Task(k)] # tgid[t],
             ClientStep(t)
      PROVE  ~ AllocationChanged(k)
  <2>1. ~ Own(t, k) /\ k \in Keys
    BY <1>1 DEF Own, TypeOK
  <2>2. ClientShape(t)
    BY <1>1, ClientStepShape
  <2>3. CASE Untouched
    <3>1. /\ allocs' = allocs
          /\ cpumask' = cpumask /\ assign_mask' = assign_mask
          /\ assign_count' = assign_count /\ window' = window
      BY <2>3 DEF Untouched
    <3> QED BY <3>1 DEF AllocationChanged
  <2>4. ASSUME NEW K \in SUBSET allocs, Freed(K), \A j \in K : Own(t, j)
        PROVE  ~ AllocationChanged(k)
    BY <2>1, <2>4 DEF Freed, AllocationChanged
  <2>5. ASSUME NEW j \in Keys, NEW mask, Allocated(j, mask), Own(t, j)
        PROVE  ~ AllocationChanged(k)
    BY <2>1, <2>5 DEF Allocated, OthersKept, AllocationChanged
  <2>6. ASSUME NEW j \in allocs, NEW c, OnlyOn(j, c), Own(t, j)
        PROVE  ~ AllocationChanged(k)
    BY <2>1, <2>6 DEF OnlyOn, OthersKept, AllocationChanged
  <2> QED
    BY <2>2, <2>3, <2>4, <2>5, <2>6 DEF ClientShape, Left, Unassigned, Assigned
<1>2. TypeOK /\ [Next]_vars => [Kept]_vars
  BY <1>1
<1>3. Spec => [][Kept]_vars
  BY <1>2, TypeCorrect, PTL DEF Spec
<1> QED BY <1>3 DEF ForeignAllocationsKept

-----------------------------------------------------------------------------
(***************************************************************************)
(* Task mappings                                                           *)
(***************************************************************************)
\* Dropping the mappings of dropped allocations, and no others that have some.
LEMMA MapsDropped ==
  ASSUME TaskMapOwnership, task_list' \subseteq task_list, allocs' \subseteq allocs,
         \A k \in allocs' : Task(k) \in task_list'
  PROVE  TaskMapOwnership'
BY DEF TaskMapOwnership

\* unregister_task() after a free leaves no allocation of the mapping behind.
LEMMA UnregisterKeepsMaps ==
  ASSUME TypeOK, TaskMapOwnership, NEW m, NEW K, UnregisterIfUnused(m, K), allocs' = allocs \ K
  PROVE  TaskMapOwnership'
<1>1. task_list' \subseteq task_list
  BY DEF UnregisterIfUnused
<1>2. ASSUME NEW k \in allocs' PROVE Task(k) \in task_list'
  <2>1. Task(k) \in task_list
    BY <1>2 DEF TaskMapOwnership
  <2>2. Task(k) = m => ~ (Allocations(m) \subseteq K)
    BY <1>2 DEF Allocations
  <2> QED BY <2>1, <2>2 DEF UnregisterIfUnused
<1> QED BY <1>1, <1>2, MapsDropped

\* A mapping is added for a group that has none, or one is used that it has.
LEMMA RegisterKeepsMaps ==
  ASSUME TypeOK, TaskMapOwnership, NEW t \in Threads, NEW m \in RegisteredTaskMap(t),
         task_list' = task_list \cup {m}, \A k \in allocs' : k \in allocs \/ Task(k) = m
  PROVE  TaskMapOwnership'
<1>1. ASSUME NEW i \in task_list', NEW j \in task_list', tgid[i] = tgid[j] PROVE i = j
  <2>1. CASE m \in task_list
    BY <1>1, <2>1 DEF TaskMapOwnership
  <2>2. CASE m \notin task_list
    <3>1. m = t /\ \A n \in task_list : tgid[n] # tgid[t]
      BY <2>2 DEF RegisteredTaskMap, TaskMap
    <3> QED BY <1>1, <3>1 DEF TaskMapOwnership
  <2> QED BY <2>1, <2>2
<1>2. \A k \in allocs' : Task(k) \in task_list'
  BY DEF TaskMapOwnership
<1> QED BY <1>1, <1>2 DEF TaskMapOwnership

LEMMA ClientTaskMapOwnership ==
  ASSUME TypeOK, TaskMapOwnership, NEW t \in Threads, ClientStep(t)
  PROVE  TaskMapOwnership'
<1>1. CASE UNCHANGED <<task_list, allocs>>
  BY <1>1 DEF TaskMapOwnership
<1>2. CASE Open(t)
  BY <1>1, <1>2 DEF Open, bookkeeping
<1>3. ASSUME NEW c \in CPUs, Close(t, c) PROVE TaskMapOwnership'
  <2>1. CASE active_count > 0 /\ t \in task_list
    <3>1. task_list' = task_list \ {t} /\ allocs' = allocs \ Allocations(t)
      BY <1>3, <2>1 DEF Close, FreeAllocations
    <3> QED BY <3>1, MapsDropped DEF Allocations, TaskMapOwnership
  <2>2. CASE ~ (active_count > 0 /\ t \in task_list)
    BY <1>1, <1>3, <2>2 DEF Close, bookkeeping
  <2> QED BY <2>1, <2>2
<1>4. ASSUME NEW c \in CPUs, NEW g \in CMGs, NEW mask \in SUBSET CPUs,
             AllocateBlade(t, c, g, mask)
      PROVE  TaskMapOwnership'
  <2>1. PICK bit \in Blades, m \in RegisteredTaskMap(t) :
          AllocateBlade(t, c, g, mask)!5!(bit, m)
    BY <1>4 DEF AllocateBlade
  <2>2. \A k \in allocs' : k \in allocs \/ Task(k) = m
    BY <2>1 DEF NewAllocation, Task
  <2>3. task_list' = task_list \cup {m}
    BY <2>1
  <2> QED BY <2>2, <2>3, RegisterKeepsMaps
<1>5. ASSUME NEW g \in CMGs, AllocateNothing(t, g) PROVE TaskMapOwnership'
  <2>1. task_list' = task_list \cup {t} /\ allocs' = allocs /\ t \in RegisteredTaskMap(t)
    BY <1>5 DEF AllocateNothing, bookkeeping, RegisteredTaskMap
  <2> QED BY <2>1, RegisterKeepsMaps
<1>6. ASSUME NEW c \in CPUs, NEW g \in CMGs, NEW b \in Blades, FreeByOwner(t, c, g, b)
      PROVE  TaskMapOwnership'
  <2>1. UnregisterIfUnused(t, {<<t, g, b>>}) /\ allocs' = allocs \ {<<t, g, b>>}
    BY <1>6 DEF FreeByOwner, FreeAllocations
  <2> QED BY <2>1, UnregisterKeepsMaps
<1>7. ASSUME NEW m \in Threads, NEW c \in CPUs, NEW g \in CMGs, NEW b \in Blades,
             FreeByGroupMember(t, m, c, g, b)
      PROVE  TaskMapOwnership'
  <2>1. CASE RemainingCpus(<<m, g, b>>, c) = {}
    <3>1. UnregisterIfUnused(m, {<<m, g, b>>}) /\ allocs' = allocs \ {<<m, g, b>>}
      BY <1>7, <2>1 DEF FreeByGroupMember, FreeAllocations
    <3> QED BY <3>1, UnregisterKeepsMaps
  <2>2. CASE RemainingCpus(<<m, g, b>>, c) # {}
    BY <1>1, <1>7, <2>2 DEF FreeByGroupMember
  <2> QED BY <2>1, <2>2
<1>8. ASSUME NEW m \in Threads, NEW c \in CPUs, NEW b \in Blades, NEW arg \in WindowArgs,
             NEW win \in Windows, AssignBlade(t, m, c, b, arg, win)
      PROVE  TaskMapOwnership'
  BY <1>1, <1>8 DEF AssignBlade
<1>9. ASSUME NEW m \in Threads, NEW c \in CPUs, NEW b \in Blades, UnassignBlade(t, m, c, b)
      PROVE  TaskMapOwnership'
  BY <1>1, <1>9 DEF UnassignBlade
<1> QED
  BY <1>2, <1>3, <1>4, <1>5, <1>6, <1>7, <1>8, <1>9 DEF ClientStep

\* A thread group never has two task mappings, and no allocation is left
\* without its mapping.
THEOREM TaskMapsOwned == Spec => []TaskMapOwnership
<1>1. Init => TaskMapOwnership
  BY DEF Init, TaskMapOwnership
<1>2. ASSUME TypeOK, TaskMapOwnership, [Next]_vars PROVE TaskMapOwnership'
  <2>1. ASSUME NEW t \in Threads, NEW c \in CPUs, Reset(t, c) PROVE TaskMapOwnership'
    <3>1. task_list' = {} /\ allocs' = {}
      BY <2>1 DEF Reset
    <3> QED BY <3>1 DEF TaskMapOwnership
  <2>2. ASSUME NEW s \in CPUs, NEW d \in CPUs, ResetCpu(s, d) PROVE TaskMapOwnership'
    <3>1. UNCHANGED <<task_list, allocs>>
      BY <2>2 DEF ResetCpu, bookkeeping
    <3> QED BY <1>2, <3>1 DEF TaskMapOwnership
  <2>3. CASE UNCHANGED vars
    BY <1>2, <2>3 DEF vars, bookkeeping, TaskMapOwnership
  <2> QED
    BY <1>2, <2>1, <2>2, <2>3, ClientTaskMapOwnership DEF Next
<1>3. TypeOK /\ TaskMapOwnership /\ [Next]_vars => TaskMapOwnership'
  BY <1>2
<1> QED
  BY <1>1, <1>3, TypeCorrect, PTL DEF Spec

=============================================================================
