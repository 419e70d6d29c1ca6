-------------------------- MODULE HwbDriverProofs ---------------------------
(***************************************************************************)
(* Proofs about HwbDriver, for every set of tasks, thread groups, CPUs and *)
(* CMGs, every number of blades and windows, and every behaviour of the    *)
(* clients: the reset, failing allocations, frees by other tasks of the    *)
(* group and explicit window numbers included.                             *)
(***************************************************************************)
EXTENDS HwbDriver, TLAPS

-----------------------------------------------------------------------------
(***************************************************************************)
(* Registers and keys                                                      *)
(***************************************************************************)
\* The blades and windows are numbers from 0, and there are some of both.
LEMMA IndexFacts ==
  /\ 0 \in Blades /\ 0 \in Windows
  /\ Blades \subseteq Int /\ Windows \subseteq Int
  /\ A64FX_HWB_UNASSIGNED_WIN \notin Windows
  /\ NotAssigned \in AssignSync
BY RegisterCounts
DEF Blades, Windows, A64FX_HWB_UNASSIGNED_WIN, NotAssigned, AssignSync

\* A key is the triple of its task, CMG and blade.
LEMMA KeyFacts ==
  /\ \A k \in Keys : /\ Task(k) \in Threads /\ Cmg(k) \in CMGs /\ Blade(k) \in Blades
                     /\ k = <<Task(k), Cmg(k), Blade(k)>>
  /\ \A m \in Threads, g \in CMGs, b \in Blades :
       /\ <<m, g, b>> \in Keys
       /\ Task(<<m, g, b>>) = m /\ Cmg(<<m, g, b>>) = g /\ Blade(<<m, g, b>>) = b
BY DEF Keys, Task, Cmg, Blade

\* A table of tables stays one when an entry is replaced.
LEMMA Update ==
  ASSUME NEW S, NEW V, NEW f \in [S -> V], NEW i, NEW v \in V
  PROVE  [f EXCEPT ![i] = v] \in [S -> V]
OBVIOUS

LEMMA NestedUpdate ==
  ASSUME NEW S, NEW T, NEW V, NEW f \in [S -> [T -> V]],
         NEW i \in S, NEW j \in T, NEW v \in V
  PROVE  [f EXCEPT ![i][j] = v] \in [S -> [T -> V]]
OBVIOUS

\* Writing a window register of asm.c leaves a set of window registers.
LEMMA AssignSyncType ==
  ASSUME NEW regs \in [Windows -> AssignSync], NEW w, NEW v \in BOOLEAN, NEW b
  PROVE  AssignSyncWritten(regs, w, v, b) \in [Windows -> AssignSync]
BY DEF AssignSyncWritten, AssignSync

-----------------------------------------------------------------------------
(***************************************************************************)
(* Type correctness                                                        *)
(***************************************************************************)
LEMMA InitTypeOK == Init => TypeOK
BY IndexFacts DEF Init, TypeOK, NoWindows, A64FX_HWB_UNASSIGNED_WIN

\* The part of TypeOK about the variables free_allocation() writes.
FreeTypeOK ==
  /\ allocs       \subseteq Keys
  /\ cpumask      \in [Keys -> SUBSET CPUs]
  /\ assign_mask  \in [Keys -> SUBSET CPUs]
  /\ assign_count \in [Keys -> Int]
  /\ window       \in [Keys -> [CPUs -> Windows \cup {A64FX_HWB_UNASSIGNED_WIN}]]
  /\ bb_active    \in [CMGs -> SUBSET Blades]
  /\ bw_map       \in [CPUs -> SUBSET Windows]
  /\ init_sync    \in [CMGs -> [Blades -> SUBSET CPUs]]
  /\ assign_sync  \in [CPUs -> [Windows -> AssignSync]]

\* free_allocation() keeps the types of everything it writes.
LEMMA FreeAllocationsType ==
  ASSUME TypeOK, NEW K \in SUBSET allocs, NEW am, NEW ac,
         NEW bm \in [CPUs -> SUBSET Windows],
         NEW as \in [CPUs -> [Windows -> AssignSync]],
         FreeAllocations(K, am, ac, bm, as)
  PROVE  FreeTypeOK'
<1> USE DEF FreeAllocations, TypeOK
<1>1. /\ allocs' \subseteq Keys
      /\ cpumask' \in [Keys -> SUBSET CPUs]
      /\ assign_mask' \in [Keys -> SUBSET CPUs]
      /\ assign_count' \in [Keys -> Int]
  OBVIOUS
<1>2. window' \in [Keys -> [CPUs -> Windows \cup {A64FX_HWB_UNASSIGNED_WIN}]]
  BY DEF NoWindows
<1>3. bb_active' \in [CMGs -> SUBSET Blades]
  OBVIOUS
<1>4. bw_map' \in [CPUs -> SUBSET Windows]
  OBVIOUS
<1>5. init_sync' \in [CMGs -> [Blades -> SUBSET CPUs]]
  BY DEF InitSyncWritten
<1>6. assign_sync' \in [CPUs -> [Windows -> AssignSync]]
  BY IndexFacts
<1> QED BY <1>1, <1>2, <1>3, <1>4, <1>5, <1>6 DEF FreeTypeOK

LEMMA OpenType ==
  ASSUME TypeOK, NEW t \in Threads, Open(t)
  PROVE  TypeOK'
BY ClientAssumption DEF TypeOK, Open, bookkeeping, registers

LEMMA CloseType ==
  ASSUME TypeOK, NEW t \in Threads, NEW c \in CPUs, Close(t, c)
  PROVE  TypeOK'
<1>1. opened' \in [Groups -> Nat] /\ active_count' \in Nat
  BY ClientAssumption DEF TypeOK, Close, ActiveAfterClose
<1>2. hwb_ctrl' \subseteq CPUs /\ reset_ipi' \subseteq CPUs \X CPUs
  BY DEF TypeOK, Close
<1>3. CASE active_count > 0 /\ t \in task_list
  <2>1. task_list' \subseteq Threads
    BY <1>3 DEF TypeOK, Close
  <2>2. FreeAllocations(Allocations(t), assign_mask, assign_count, bw_map, assign_sync)
    BY <1>3 DEF Close
  <2>3. Allocations(t) \subseteq allocs
    BY DEF Allocations
  <2>4. /\ bw_map \in [CPUs -> SUBSET Windows]
        /\ assign_sync \in [CPUs -> [Windows -> AssignSync]]
    BY DEF TypeOK
  <2>5. FreeTypeOK'
    BY <2>2, <2>3, <2>4, FreeAllocationsType
  <2> QED
    BY <1>1, <1>2, <2>1, <2>5 DEF TypeOK, FreeTypeOK
<1>4. CASE ~ (active_count > 0 /\ t \in task_list)
  BY <1>1, <1>2, <1>4 DEF TypeOK, Close, bookkeeping
<1> QED BY <1>3, <1>4

LEMMA AllocateBladeType ==
  ASSUME TypeOK, NEW t \in Threads, NEW c \in CPUs, NEW g \in CMGs,
         NEW mask \in SUBSET CPUs, AllocateBlade(t, c, g, mask)
  PROVE  TypeOK'
<1>1. PICK bit \in Blades, m \in RegisteredTaskMap(t) :
        AllocateBlade(t, c, g, mask)!5!(bit, m)
  BY DEF AllocateBlade
<1>2. m \in Threads
  BY DEF RegisteredTaskMap, TaskMap, TypeOK
<1>3. <<m, g, bit>> \in Keys
  BY <1>2, KeyFacts
<1>4. mask \in SUBSET CPUs
  BY DEF PEs
<1>5. init_sync' \in [CMGs -> [Blades -> SUBSET CPUs]]
  BY <1>1, <1>4 DEF TypeOK, NewAllocation, InitSyncWritten
<1>6. window' \in [Keys -> [CPUs -> Windows \cup {A64FX_HWB_UNASSIGNED_WIN}]]
  BY <1>1 DEF TypeOK, NewAllocation, NoWindows
<1>7. cpumask' \in [Keys -> SUBSET CPUs] /\ assign_mask' \in [Keys -> SUBSET CPUs]
  BY <1>1, <1>4 DEF TypeOK, NewAllocation
<1>8. assign_count' \in [Keys -> Int] /\ bb_active' \in [CMGs -> SUBSET Blades]
  <2>1. assign_count' = [assign_count EXCEPT ![<<m, g, bit>>] = 0]
    BY <1>1 DEF NewAllocation
  <2>2. bb_active' = [bb_active EXCEPT ![g] = @ \cup {bit}]
    BY <1>1 DEF NewAllocation
  <2>3. assign_count' \in [Keys -> Int]
    BY <2>1, Update DEF TypeOK
  <2>4. bb_active' \in [CMGs -> SUBSET Blades]
    BY <2>2 DEF TypeOK
  <2> QED BY <2>3, <2>4
<1>9. task_list' \subseteq Threads /\ allocs' \subseteq Keys
  BY <1>1, <1>2, <1>3 DEF TypeOK, NewAllocation
<1>10. UNCHANGED <<opened, active_count, bw_map, assign_sync, hwb_ctrl, reset_ipi>>
  BY DEF AllocateBlade
<1> QED
  BY <1>5, <1>6, <1>7, <1>8, <1>9, <1>10 DEF TypeOK

LEMMA AllocateNothingType ==
  ASSUME TypeOK, NEW t \in Threads, NEW g \in CMGs, AllocateNothing(t, g)
  PROVE  TypeOK'
BY DEF TypeOK, AllocateNothing, bookkeeping, registers

LEMMA FreeByOwnerType ==
  ASSUME TypeOK, NEW t \in Threads, NEW c \in CPUs, NEW g \in CMGs, NEW b \in Blades,
         FreeByOwner(t, c, g, b)
  PROVE  TypeOK'
<1> DEFINE k == <<t, g, b>>
<1>1. FreeAllocations({k}, assign_mask, assign_count, bw_map, assign_sync)
  BY DEF FreeByOwner
<1>2. {k} \subseteq allocs
  BY DEF FreeByOwner
<1>3. task_list' \subseteq Threads
  BY DEF FreeByOwner, UnregisterIfUnused, TypeOK
<1>4. UNCHANGED <<opened, active_count, hwb_ctrl, reset_ipi>>
  BY DEF FreeByOwner
<1>5. /\ bw_map \in [CPUs -> SUBSET Windows]
      /\ assign_sync \in [CPUs -> [Windows -> AssignSync]]
  BY DEF TypeOK
<1>6. FreeTypeOK'
  BY <1>1, <1>2, <1>5, FreeAllocationsType
<1> QED
  BY <1>3, <1>4, <1>6 DEF TypeOK, FreeTypeOK

LEMMA FreeByGroupMemberType ==
  ASSUME TypeOK, NEW t \in Threads, NEW m \in Threads, NEW c \in CPUs, NEW g \in CMGs,
         NEW b \in Blades, FreeByGroupMember(t, m, c, g, b)
  PROVE  TypeOK'
<1> DEFINE k        == <<m, g, b>>
           assigned == c \in assign_mask[k]
           rest     == RemainingCpus(k, c)
           am == [assign_mask EXCEPT ![k] = @ \ {c}]
           ac == [assign_count EXCEPT ![k] = CountWithout(k, c)]
           bm == [bw_map EXCEPT ![c] = IF assigned THEN @ \ {window[k][c]} ELSE @]
           as == [assign_sync EXCEPT ![c] =
                    IF assigned THEN AssignSyncWritten(@, 0, FALSE, 0) ELSE @]
<1>1. k \in Keys
  BY KeyFacts
<1>2. am \in [Keys -> SUBSET CPUs] /\ rest \in SUBSET CPUs
  BY <1>1 DEF TypeOK, RemainingCpus
<1>3. ac \in [Keys -> Int]
  BY <1>1 DEF TypeOK, CountWithout
<1>4. bm \in [CPUs -> SUBSET Windows]
  BY DEF TypeOK
<1>5. as \in [CPUs -> [Windows -> AssignSync]]
  <2>1. AssignSyncWritten(assign_sync[c], 0, FALSE, 0) \in [Windows -> AssignSync]
    BY AssignSyncType DEF TypeOK
  <2> QED BY <2>1 DEF TypeOK
<1>6. UNCHANGED <<opened, active_count, hwb_ctrl, reset_ipi>> /\ k \in allocs
  BY DEF FreeByGroupMember
<1>7. CASE rest = {}
  <2>1. FreeAllocations({k}, am, ac, bm, as)
    BY <1>7 DEF FreeByGroupMember
  <2>2. task_list' \subseteq Threads
    BY <1>7 DEF FreeByGroupMember, UnregisterIfUnused, TypeOK
  <2> HIDE DEF k, am, ac, bm, as
  <2>3. FreeTypeOK'
    BY <1>4, <1>5, <1>6, <2>1, FreeAllocationsType
  <2> QED
    BY <1>6, <2>2, <2>3 DEF TypeOK, FreeTypeOK
<1>8. CASE rest # {}
  <2>1. /\ cpumask' = [cpumask EXCEPT ![k] = rest]
        /\ assign_mask' = am
        /\ assign_count' = ac
        /\ window' = [window EXCEPT ![k][c] =
                         IF assigned THEN A64FX_HWB_UNASSIGNED_WIN ELSE @]
        /\ bw_map' = bm
        /\ assign_sync' = as
        /\ init_sync' = [init_sync EXCEPT ![g][b] = InitSyncWritten(@, rest)]
        /\ UNCHANGED <<allocs, bb_active, task_list>>
    BY <1>8 DEF FreeByGroupMember
  <2>2. init_sync' \in [CMGs -> [Blades -> SUBSET CPUs]]
    <3>1. InitSyncWritten(init_sync[g][b], rest) \in SUBSET CPUs
      <4>1. init_sync[g][b] \in SUBSET CPUs
        BY DEF TypeOK
      <4> HIDE DEF rest
      <4> QED BY <1>2, <4>1 DEF InitSyncWritten
    <3>2. init_sync' = [init_sync EXCEPT ![g][b] = InitSyncWritten(init_sync[g][b], rest)]
      BY <2>1
    <3> HIDE DEF rest
    <3> QED BY <3>1, <3>2, NestedUpdate DEF TypeOK
  <2>3. window' \in [Keys -> [CPUs -> Windows \cup {A64FX_HWB_UNASSIGNED_WIN}]]
    <3> DEFINE w == IF assigned THEN A64FX_HWB_UNASSIGNED_WIN ELSE window[k][c]
    <3>1. w \in Windows \cup {A64FX_HWB_UNASSIGNED_WIN}
      BY <1>1 DEF TypeOK
    <3>2. window' = [window EXCEPT ![k][c] = w]
      BY <2>1
    <3> HIDE DEF k, w
    <3> QED BY <1>1, <3>1, <3>2, NestedUpdate DEF TypeOK
  <2>4. cpumask' \in [Keys -> SUBSET CPUs]
    BY <1>1, <1>2, <2>1 DEF TypeOK
  <2> HIDE DEF am, ac, bm, as, rest
  <2> QED
    BY <1>2, <1>3, <1>4, <1>5, <1>6, <2>1, <2>2, <2>3, <2>4 DEF TypeOK
<1> QED BY <1>7, <1>8

LEMMA AssignBladeType ==
  ASSUME TypeOK, NEW t \in Threads, NEW m \in Threads, NEW c \in CPUs, NEW b \in Blades,
         NEW arg, NEW win \in Windows, AssignBlade(t, m, c, b, arg, win)
  PROVE  TypeOK'
<1> DEFINE k == <<m, cmgOf[c], b>>
<1>1. k \in Keys
  BY KeyFacts, TopologyAssumption
<1>2. assign_sync' \in [CPUs -> [Windows -> AssignSync]]
  <2>1. AssignSyncWritten(assign_sync[c], win, TRUE, b) \in [Windows -> AssignSync]
    BY AssignSyncType DEF TypeOK
  <2> QED BY <2>1 DEF TypeOK, AssignBlade
<1>3. window' \in [Keys -> [CPUs -> Windows \cup {A64FX_HWB_UNASSIGNED_WIN}]]
  BY <1>1 DEF TypeOK, AssignBlade
<1>4. bw_map' \in [CPUs -> SUBSET Windows]
  BY DEF TypeOK, AssignBlade
<1>5. assign_mask' \in [Keys -> SUBSET CPUs] /\ assign_count' \in [Keys -> Int]
  <2>1. assign_mask' = [assign_mask EXCEPT ![k] = @ \cup {c}]
    BY DEF AssignBlade
  <2>2. assign_count' = [assign_count EXCEPT ![k] = @ + 1]
    BY DEF AssignBlade
  <2>3. assign_mask' \in [Keys -> SUBSET CPUs]
    BY <2>1 DEF TypeOK
  <2>4. assign_count[k] + 1 \in Int
    BY <1>1 DEF TypeOK
  <2>5. assign_count' \in [Keys -> Int]
    BY <2>2, <2>4 DEF TypeOK
  <2> QED BY <2>3, <2>5
<1>6. UNCHANGED <<opened, active_count, task_list, allocs, cpumask, bb_active,
                  init_sync, hwb_ctrl, reset_ipi>>
  BY DEF AssignBlade
<1> QED
  BY <1>2, <1>3, <1>4, <1>5, <1>6 DEF TypeOK

LEMMA UnassignBladeType ==
  ASSUME TypeOK, NEW t \in Threads, NEW m \in Threads, NEW c \in CPUs, NEW b \in Blades,
         UnassignBlade(t, m, c, b)
  PROVE  TypeOK'
<1> DEFINE k   == <<m, cmgOf[c], b>>
           win == window[k][c]
<1>1. k \in Keys
  BY KeyFacts, TopologyAssumption
<1>2. assign_sync' \in [CPUs -> [Windows -> AssignSync]]
  <2>1. AssignSyncWritten(assign_sync[c], win, FALSE, 0) \in [Windows -> AssignSync]
    BY AssignSyncType DEF TypeOK
  <2> QED BY <2>1 DEF TypeOK, UnassignBlade
<1>3. window' \in [Keys -> [CPUs -> Windows \cup {A64FX_HWB_UNASSIGNED_WIN}]]
  BY <1>1 DEF TypeOK, UnassignBlade
<1>4. bw_map' \in [CPUs -> SUBSET Windows]
  BY DEF TypeOK, UnassignBlade
<1>5. assign_mask' \in [Keys -> SUBSET CPUs] /\ assign_count' \in [Keys -> Int]
  <2>1. assign_mask' = [assign_mask EXCEPT ![k] = @ \ {c}]
    BY DEF UnassignBlade
  <2>2. assign_count' = [assign_count EXCEPT ![k] = @ - 1]
    BY DEF UnassignBlade
  <2>3. assign_mask' \in [Keys -> SUBSET CPUs]
    BY <2>1 DEF TypeOK
  <2>4. assign_count[k] - 1 \in Int
    BY <1>1 DEF TypeOK
  <2>5. assign_count' \in [Keys -> Int]
    BY <2>2, <2>4 DEF TypeOK
  <2> QED BY <2>3, <2>5
<1>6. UNCHANGED <<opened, active_count, task_list, allocs, cpumask, bb_active,
                  init_sync, hwb_ctrl, reset_ipi>>
  BY DEF UnassignBlade
<1> QED
  BY <1>2, <1>3, <1>4, <1>5, <1>6 DEF TypeOK

\* What asm_reset_func() leaves in the registers.
LEMMA ResetRegistersType ==
  ASSUME TypeOK, NEW d \in CPUs, ResetRegisters(d)
  PROVE  /\ assign_sync' \in [CPUs -> [Windows -> AssignSync]]
         /\ init_sync'   \in [CMGs -> [Blades -> SUBSET CPUs]]
         /\ hwb_ctrl'    \subseteq CPUs
<1>1. WindowsReset(d) \in [Windows -> AssignSync]
  BY IndexFacts DEF WindowsReset
<1>2. \A g \in CMGs : BladesReset(g, d) \in [Blades -> SUBSET CPUs]
  BY DEF BladesReset, InitSyncWritten, TypeOK
<1> QED
  BY <1>1, <1>2 DEF ResetRegisters, TypeOK

LEMMA ResetType ==
  ASSUME TypeOK, NEW t \in Threads, NEW c \in CPUs, Reset(t, c)
  PROVE  TypeOK'
<1>1. /\ assign_sync' \in [CPUs -> [Windows -> AssignSync]]
      /\ init_sync'   \in [CMGs -> [Blades -> SUBSET CPUs]]
      /\ hwb_ctrl'    \subseteq CPUs
  BY ResetRegistersType DEF Reset
<1>2. window' \in [Keys -> [CPUs -> Windows \cup {A64FX_HWB_UNASSIGNED_WIN}]]
  BY DEF Reset, NoWindows
<1>3. reset_ipi' \subseteq CPUs \X CPUs
  BY DEF Reset, TypeOK
<1>4. /\ opened' \in [Groups -> Nat] /\ active_count' \in Nat
      /\ task_list' \subseteq Threads /\ allocs' \subseteq Keys
      /\ cpumask' \in [Keys -> SUBSET CPUs] /\ assign_mask' \in [Keys -> SUBSET CPUs]
      /\ assign_count' \in [Keys -> Int]
      /\ bb_active' \in [CMGs -> SUBSET Blades] /\ bw_map' \in [CPUs -> SUBSET Windows]
  BY DEF Reset, TypeOK
<1> QED
  BY <1>1, <1>2, <1>3, <1>4 DEF TypeOK

LEMMA ResetCpuType ==
  ASSUME TypeOK, NEW s \in CPUs, NEW d \in CPUs, ResetCpu(s, d)
  PROVE  TypeOK'
<1>1. /\ assign_sync' \in [CPUs -> [Windows -> AssignSync]]
      /\ init_sync'   \in [CMGs -> [Blades -> SUBSET CPUs]]
      /\ hwb_ctrl'    \subseteq CPUs
  BY ResetRegistersType DEF ResetCpu
<1>2. /\ reset_ipi' \subseteq CPUs \X CPUs
      /\ UNCHANGED <<opened, active_count, task_list, bookkeeping>>
  BY DEF ResetCpu, TypeOK
<1> QED
  BY <1>1, <1>2 DEF TypeOK, bookkeeping

LEMMA NextTypeOK ==
  ASSUME TypeOK, [Next]_vars
  PROVE  TypeOK'
<1>1. ASSUME NEW t \in Threads, ClientStep(t) PROVE TypeOK'
  BY <1>1, OpenType, CloseType, AllocateBladeType, AllocateNothingType, FreeByOwnerType,
     FreeByGroupMemberType, AssignBladeType, UnassignBladeType DEF ClientStep
<1>2. CASE UNCHANGED vars
  BY <1>2 DEF TypeOK, vars, bookkeeping, registers
<1> QED
  BY <1>1, <1>2, ResetType, ResetCpuType DEF Next

\* The state of the driver keeps its types; in particular active_count never
\* gets negative, not even when a reset zeroes it under open file descriptions.
THEOREM TypeCorrect == Spec => []TypeOK
<1>1. Init => TypeOK
  BY InitTypeOK
<1>2. TypeOK /\ [Next]_vars => TypeOK'
  BY NextTypeOK
<1> QED
  BY <1>1, <1>2, PTL DEF Spec

=============================================================================
